---- MODULE Spec2Model ----
(***************************************************************************)
(* Live-session orchestration pipeline of DnD_Companion.                   *)
(*                                                                         *)
(* The model is one module with several specifications, one per           *)
(* subsystem.  Every specification starts from the same Init and leaves    *)
(* the variables of the other subsystems unchanged:                        *)
(*   SpecSession  transcript buffer, deferred corrections, attribution     *)
(*                batches, merge passes, manual corrections, lifecycle     *)
(*                (server/src/websocket/index.ts, services/ai.ts)          *)
(*   SpecMerge    SpecSession restricted to appends and attribution        *)
(*   SpecTrigger  Audio Trigger Engine and the manual-trigger handler      *)
(*                (services/audioTrigger.ts, websocket/index.ts:470-477)   *)
(*   SpecAuto     Auto-Audio Director (services/autoAudioService.ts)       *)
(*   SpecHealth   health events and health:confirm                         *)
(*                (websocket/index.ts:329-371, 538-571)                    *)
(*   SpecLifecycle  session:start / pause / resume / end / disconnect on   *)
(*                one connection, with the handlers' awaits                *)
(*                (websocket/index.ts:129-179, 378-418, 573-657)           *)
(*   SpecAdapter  Transcription Adapter: connection, reconnects, close()   *)
(*                (services/transcription.ts)                              *)
(*   SpecLabels   SpecSession for one running session, fewer segments      *)
(*   SpecScene    a scene detection handed to both audio engines           *)
(*                (websocket/index.ts:260-282)                             *)
(*   SpecWindow   the director's window of recent segments and its         *)
(*                every-third-segment analysis (autoAudioService.ts)       *)
(*   SpecLimiter  the analyzer's rate limiter shared by two sessions       *)
(*                (services/aiAudioAnalyzer.ts)                            *)
(*   SpecPlayback music searches and auto-audio:playback-failed            *)
(*                (websocket/index.ts:521-535)                             *)
(*   SpecClient   SpecSession with the client's transcript state           *)
(*                (client/src/pages/LiveSession.tsx:198-231)               *)
(*   SpecResume   the lifecycle with a client that reconnects              *)
(* JavaScript is single-threaded: every action is the synchronous run of   *)
(* one handler or of one continuation after an await.                      *)
(***************************************************************************)
EXTENDS Integers, Sequences, FiniteSets, TLC

\* ------------------------------------------------------------------ bounds
\* Segments the speech-to-text provider emits in one session.
MaxSegments == 8
\* Optional events of the environment in one session, counted together: a
\* deferred correction that stays in flight (the others resolve at once with
\* the text unchanged), a manual speaker correction, a pause, an utterance of
\* the second speaker.
MaxExtras == 1
\* Position up to which the attribution model's reply may switch speaker.
MaxSplit == 1

\* ------------------------------------------------------- program constants
\* websocket/index.ts:319  transcriptSegments.length - 4
UnsettledWindow == 4
\* websocket/index.ts:286  lastSpeakerAttributionIndex + 4
AttributionEvery == 4
\* websocket/index.ts:290  segmentCount - 16
AttributionWindow == 16
\* websocket/index.ts:261  lastSceneDetectionIndex + 5
SceneEvery == 5
\* ai.ts:108  originalLength * 3
LengthFactor == 3
\* ai.ts:108  originalLength + 50
LengthSlack == 50

\* ------------------------------------------------------------------- state
VARIABLES
  sess,              \* "idle" | "active" | "paused" | "ended" | "lost"
  segs,              \* transcriptSegments: the live buffer (closure of session:start)
  nextId,            \* ids (uuidv4) handed out so far + 1
  lastSceneIdx,      \* lastSceneDetectionIndex
  lastAttrIdx,       \* lastSpeakerAttributionIndex
  lastBatch,         \* the start of the last attribution batch: segments emitted
                     \* so far, buffer length, window size
  mergedSegmentIds,  \* set of merge keys <<currentId, nextId>>
  nameCorrections,   \* AIService.nameCorrections: set of <<wrong, right>>
  corrTasks,         \* correctTranscriptWithAI promises in flight
  attrTasks,         \* attributeSpeakers promises in flight
  sceneTasks,        \* onSegment callbacks suspended in `await detectScene`
  manualTasks,       \* speaker:attribute handlers suspended in `await saveTranscript`
  extras,            \* optional events of the environment so far
  out,               \* events the last step emitted on the socket, in order
  mergedLog,         \* <<targetId, mergedId>> of every transcript:merged so far
  lastMut            \* pairs <<captured id, mutated id>> of the last background completion

sessionVars == <<sess, segs, nextId, lastSceneIdx, lastAttrIdx, lastBatch, mergedSegmentIds,
                 nameCorrections, corrTasks, attrTasks, sceneTasks, manualTasks,
                 extras, out, mergedLog, lastMut>>

VARIABLES
  currentlyPlaying,  \* AudioTriggerService.currentlyPlaying
  trigCall,          \* the last call into the trigger engine or its socket handler
  trigOut            \* audio:trigger events that call emitted, in order

triggerVars == <<currentlyPlaying, trigCall, trigOut>>

VARIABLES
  now,                    \* Date.now() in milliseconds
  settings,               \* AutoAudioService.settings
  recentSegments,         \* length of AutoAudioService.recentSegments
  currentScene,           \* AutoAudioService.currentScene
  currentMusicTrackId,    \* AutoAudioService.currentMusicTrackId
  playedEffectsRecently,  \* AutoAudioService.playedEffectsRecently
  cooldownTimers,         \* pending setTimeout callbacks of searchAndPlayEffect
  autoTasks,              \* director operations suspended at an await
  autoOps,                \* director operations started so far
  autoLog                 \* auto-audio:play events emitted, with their time

autoVars == <<now, settings, recentSegments, currentScene, currentMusicTrackId,
              playedEffectsRecently, cooldownTimers, autoTasks, autoOps, autoLog>>

VARIABLES
  healthEvents,   \* the healthEvent table, in creation order
  currentHp,      \* the player record's currentHp
  confirmTasks,   \* health:confirm handlers suspended at prisma.player.update
  confirms,       \* health:confirm messages received so far
  healthOut,      \* events the last health step emitted
  lastApply       \* the last HP computation of health:confirm

healthVars == <<healthEvents, currentHp, confirmTasks, confirms, healthOut, lastApply>>

VARIABLES
  userId,        \* socket.data.userId
  records,       \* the session table: status, saved transcript, recap started
  currentSessionState,  \* currentSessionState of the connection
  instances,     \* what each completed session:start created: timer, adapter, buffer
  startTasks,    \* session:start handlers suspended at an await
  endTasks,      \* session:end handlers suspended at an await
  discTasks,     \* disconnect handlers suspended at an await (n: the state
                 \* that was current when the disconnect arrived)
  connected,     \* the socket is connected
  lcOps,         \* inbound lifecycle messages received so far
  lcCall,        \* the handler step that ran last
  lcOut          \* events that step emitted

lifecycleVars == <<userId, records, currentSessionState, instances, startTasks, endTasks, discTasks,
                   connected, lcOps, lcCall, lcOut>>

VARIABLES
  conns,              \* every provider connection the adapter created
  connection,         \* this.connection: index into conns, or NoConnection
  isConnecting,       \* this.isConnecting
  isConnected,        \* this.isConnected
  keepAliveInterval,  \* a keep-alive interval is armed
  audioChunkCount,    \* this.audioChunkCount
  chunkTasks,         \* initializeConnection / processAudioChunk calls at an await
  closed,             \* close() has been called
  adCall,             \* the adapter step that ran last
  adOut               \* connections whose transcript reached onSegment in that step

adapterVars == <<conns, connection, isConnecting, isConnected, keepAliveInterval,
                 audioChunkCount, chunkTasks, closed, adCall, adOut>>

VARIABLES
  lastSceneChangeTime,  \* aiAudioAnalyzer.lastSceneChangeTime (one per process)
  lastEffectTime,       \* aiAudioAnalyzer.lastEffectTime
  directorScene,        \* currentScene of each live session's AutoAudioService
  sceneChangedAt,       \* when each director's currentScene last changed
  ownSceneTime,         \* lastSceneChangeTime as each session alone would have set it
  ownEffectTime,        \* lastEffectTime as each session alone would have set it
  limCall               \* the last analyzeForAudio call and its decisions

limiterVars == <<lastSceneChangeTime, lastEffectTime, directorScene, sceneChangedAt,
                 ownSceneTime, ownEffectTime, limCall>>

VARIABLES
  unplayableTracks,     \* tabletopAudioService.unplayableTracks (aiAudioAnalyzer.ts:541)
  failedTracks          \* track ids the client has reported as failed to play

playbackVars == <<unplayableTracks, failedTracks>>

VARIABLES
  transcript            \* LiveSession.tsx: the client's transcript state

clientVars == <<transcript>>

VARIABLES
  flushed               \* per session id: what the last disconnect persisted

resumeVars == <<flushed>>

vars == <<sessionVars, triggerVars, autoVars, healthVars, lifecycleVars, adapterVars,
          limiterVars, playbackVars, clientVars, resumeVars>>

\* ------------------------------------------------------------- small helpers
Max(a, b) == IF a >= b THEN a ELSE b
Min(a, b) == IF a <= b THEN a ELSE b
Range(s) == {s[i] : i \in 1..Len(s)}

\* JavaScript null for speakerName.
NoName == "null"
\* A closure's captured segment object.  While the object is the one held in
\* the buffer it is Live; once the buffer drops it (splice after a merge) or
\* replaces it by a copy (speaker:attribute) nothing writes to it any more and
\* the closure keeps seeing the fields it had then.
Live == [live |-> TRUE]
Detached(s) == [live |-> FALSE, text |-> s.text, speakerName |-> s.speakerName,
                speakerLabel |-> s.speakerLabel]

\* Speaker names: the one the attribution model returns and the one the
\* client sets by hand.
AttrNames == {"DM"}
ManualNames == {"Mike"}
\* String.prototype.startsWith('Speaker '): raw diarization labels.
Labels == {"Speaker A", "Speaker B"}

\* websocket/index.ts:71
hasConfirmedSpeaker(s) == s \notin Labels

\* Words: a text is a sequence of words [o |-> id of the segment the word was
\* spoken in, w |-> the word].  "gandolf" is a misheard campaign name.
knownNames == {"Gandalf"}
Vocabulary == {"gandolf", "attacks"}
\* What the provider can emit for one utterance.
Utterances == {[label |-> "Speaker A", word |-> "gandolf"],
               [label |-> "Speaker B", word |-> "attacks"]}
FirstSpeaker == [label |-> "Speaker A", word |-> "gandolf"]
\* Every word of the vocabulary has 7 characters.
WordChars == 7
\* String.length of a text: words joined by single spaces.
StrLen(text) == IF Len(text) = 0 THEN 0 ELSE WordChars * Len(text) + (Len(text) - 1)

\* ------------------------------------------------------------------ events
NoId == 0 - 1
Event(type, segmentId, mergedId, text, speakerName) ==
  [type |-> type, segmentId |-> segmentId, mergedId |-> mergedId,
   text |-> text, speakerName |-> speakerName]

\* --------------------------------------------------- AIService (services/ai.ts)
\* correctTranscriptText: apply the learned wrong -> right pairs, whole words.
RightFor(w) == CHOOSE p \in nameCorrections : p[1] = w
correctTranscriptText(text) ==
  [i \in 1..Len(text) |->
     IF \E p \in nameCorrections : p[1] = text[i].w
     THEN [text[i] EXCEPT !.w = RightFor(text[i].w)[2]]
     ELSE text[i]]

\* What the correction model would write for a text when it fixes the names.
FixWord(x) == IF x.w = "gandolf" THEN [x EXCEPT !.w = "Gandalf"] ELSE x
Fix(text) == [i \in 1..Len(text) |-> FixWord(text[i])]
\* The model echoing its context back: the text repeated n times.
RECURSIVE Echo(_, _)
Echo(text, n) == IF n = 0 THEN <<>> ELSE text \o Echo(text, n - 1)
EchoTimes == 8
\* Replies of the correction model to a text (after trim and quote stripping):
\* nothing, the text itself, the text with names fixed, the context echoed.
Replies(text) == {<<>>, text, Fix(text), Echo(text, EchoTimes)}

\* ai.ts:106-110
TooLong(originalLength, correctedLength) ==
  correctedLength > Max(originalLength * LengthFactor, originalLength + LengthSlack)

\* ai.ts:99-113: the reply is turned down by the sanity check.
Rejected(text, reply) ==
  /\ Len(reply) > 0
  /\ reply # text
  /\ TooLong(StrLen(text), StrLen(reply))

\* ai.ts:97-122: the text correctTranscriptWithAI resolves to.
correctTranscriptWithAI(text, reply) ==
  IF Len(reply) > 0 /\ reply # text /\ ~Rejected(text, reply) THEN reply ELSE text

\* ai.ts:132-151: pairs learned from an accepted correction.
learnCorrections(original, corrected) ==
  IF Len(original) = Len(corrected)
  THEN {<<original[i].w, corrected[i].w>> : i \in
          {j \in 1..Len(original) :
             /\ original[j].w # corrected[j].w
             /\ corrected[j].w \in knownNames}}
  ELSE {}

\* nameCorrections after correctTranscriptWithAI(text) got `reply`.
LearnedAfter(text, reply) ==
  IF Len(reply) > 0 /\ reply # text /\ ~Rejected(text, reply)
  THEN {p \in nameCorrections : \A q \in learnCorrections(text, reply) : q[1] # p[1]}
         \cup learnCorrections(text, reply)
  ELSE nameCorrections

\* ------------------------------------------- buffer and captured objects
Ids(ss) == {ss[i].id : i \in 1..Len(ss)}
IndexOf(ss, id) == CHOOSE i \in 1..Len(ss) : ss[i].id = id
\* The fields a closure reads through its captured object.
Seen(ss, id, obj) ==
  IF obj.live THEN Detached(ss[IndexOf(ss, id)]) ELSE obj
\* The captured object after the buffer `before` dropped or replaced the
\* objects of the ids in `gone`.
Detach(before, id, obj, gone) ==
  IF obj.live /\ id \in gone THEN Detached(before[IndexOf(before, id)]) ELSE obj
DetachCorr(tasks, before, gone) ==
  {[t EXCEPT !.obj = Detach(before, t.id, t.obj, gone)] : t \in tasks}
DetachAttr(tasks, before, gone) ==
  {[t EXCEPT !.win = [i \in 1..Len(t.win) |->
                        [t.win[i] EXCEPT !.obj = Detach(before, t.win[i].id, t.win[i].obj, gone)]]]
     : t \in tasks}

\* ---------------------------------------------- merge engine (index.ts:45-121)
\* index.ts:67-68
effectiveSpeaker(s) == IF s.speakerName # NoName THEN s.speakerName ELSE s.speakerLabel

\* Mutant: the scan forgets the segments it has already marked.
MarkedForRemovalNever(toRemove, current, next) == FALSE

\* index.ts:61
MarkedForRemoval(toRemove, current, next) ==
  current.id \in toRemove \/ next.id \in toRemove

\* index.ts:76
AlreadyMerged(keys, current, next) == <<current.id, next.id>> \in keys

\* index.ts:55-110: the scan, i counted from 0 as in the source.  st carries
\* the array, toRemove, mergedSegmentIds and the socket's events.
RECURSIVE MergeScan(_, _, _)
MergeScan(st, i, endIndex) ==
  IF ~(i < endIndex - 1 /\ i < Len(st.segs) - 1) THEN st
  ELSE
    LET current == st.segs[i + 1]
        next == st.segs[i + 2]
        mergedText == current.text \o next.text
    IN IF MarkedForRemoval(st.toRemove, current, next)
       THEN MergeScan(st, i + 1, endIndex)
       ELSE IF /\ effectiveSpeaker(current) = effectiveSpeaker(next)
               /\ hasConfirmedSpeaker(effectiveSpeaker(current))
            THEN IF AlreadyMerged(st.keys, current, next)
                 THEN MergeScan(st, i + 1, endIndex)
                 ELSE MergeScan(
                        [segs |-> [st.segs EXCEPT ![i + 1].text = mergedText],
                         toRemove |-> st.toRemove \cup {next.id},
                         keys |-> st.keys \cup {<<current.id, next.id>>},
                         out |-> Append(st.out,
                                   Event("transcript:merged", current.id, next.id,
                                         mergedText, NoName))],
                        i + 1, endIndex)
            ELSE MergeScan(st, i + 1, endIndex)

\* index.ts:112-120
RemoveMerged(ss, toRemove) == SelectSeq(ss, LAMBDA s : s.id \notin toRemove)

\* index.ts:45-121; .before is the array as it was when the splice ran.
mergeConsecutiveSegments(ss, startIndex, endIndex, keys, events) ==
  LET st == MergeScan([segs |-> ss, toRemove |-> {}, keys |-> keys, out |-> events],
                      startIndex, endIndex)
  IN [segs |-> RemoveMerged(st.segs, st.toRemove), before |-> st.segs,
      toRemove |-> st.toRemove, keys |-> st.keys, out |-> st.out]

\* Mutant: the pass runs over the whole buffer.
MergeSettledWhole(ss, keys, events) ==
  mergeConsecutiveSegments(ss, 0, Len(ss), keys, events)

\* index.ts:317-322
MergeSettled(ss, keys, events) ==
  LET settledEnd == Max(0, Len(ss) - UnsettledWindow)
  IN IF settledEnd > 1
     THEN mergeConsecutiveSegments(ss, 0, settledEnd, keys, events)
     ELSE [segs |-> ss, before |-> ss, toRemove |-> {}, keys |-> keys, out |-> events]

\* ------------------------------------------------------------------- Init
NewSegment(id, u) ==
  [id |-> id, speakerLabel |-> u.label, speakerName |-> NoName,
   text |-> <<[o |-> id, w |-> u.word]>>, isEdited |-> FALSE]

SessionInit ==
  /\ sess = "idle"
  /\ segs = <<>>
  /\ nextId = 1
  /\ lastSceneIdx = 0
  /\ lastAttrIdx = 0
  /\ lastBatch = [emitted |-> 0, len |-> 0, size |-> 0]
  /\ mergedSegmentIds = {}
  /\ nameCorrections = {}
  /\ corrTasks = {}
  /\ attrTasks = {}
  /\ sceneTasks = {}
  /\ manualTasks = {}
  /\ extras = 0
  /\ out = <<>>
  /\ mergedLog = <<>>
  /\ lastMut = {}

\* ------------------------------- Audio Trigger Engine (services/audioTrigger.ts)
\* The campaign's sound mappings, in list order.
soundMappings ==
  << [id |-> "m1", triggerType |-> "keyword", triggerValue |-> "initiative"],
     [id |-> "m2", triggerType |-> "keyword", triggerValue |-> "rest"],
     [id |-> "m3", triggerType |-> "scene", triggerValue |-> "combat"],
     [id |-> "m4", triggerType |-> "scene", triggerValue |-> "tavern"],
     [id |-> "m5", triggerType |-> "manual", triggerValue |-> "horn"] >>
MappingIds == {soundMappings[i].id : i \in 1..Len(soundMappings)}
\* JavaScript null for currentlyPlaying.
NoMapping == "null"
\* Ids a caller can pass: the mappings' and one that names no mapping.
RequestIds == MappingIds \cup {"mX"}
\* Transcript texts handed to the engine, and the trigger words each contains.
TriggerTexts == {"we walk on", "roll initiative", "a short rest", "rest then initiative"}
WordsOf(text) ==
  CASE text = "roll initiative" -> {"initiative"}
    [] text = "a short rest" -> {"rest"}
    [] text = "rest then initiative" -> {"rest", "initiative"}
    [] OTHER -> {}
\* audioTrigger.ts:30,48  new RegExp(triggerValue, 'i').test(text)
PatternTest(triggerValue, text) == triggerValue \in WordsOf(text)
Scenes == {"combat", "tavern", "forest"}
\* Confidence in tenths: 0.5, 0.6, 0.8.
Confidences == {5, 6, 8}
\* audioTrigger.ts:59  confidence < 0.6, in tenths
SceneConfidenceMin == 6

NoCall == [op |-> "none", arg |-> "", confidence |-> 0, before |-> NoMapping]
Call(op, arg, confidence) ==
  [op |-> op, arg |-> arg, confidence |-> confidence, before |-> currentlyPlaying]
Trigger(mappingId, action, manual) ==
  [mappingId |-> mappingId, action |-> action, manual |-> manual]

TriggerInit ==
  /\ currentlyPlaying = NoMapping
  /\ trigCall = NoCall
  /\ trigOut = <<>>

\* Mutant: the action the caller asked for is used whatever is playing.
finalActionAsRequested(playing, action) == action

\* audioTrigger.ts:96
finalAction(playing, action) == IF playing # NoMapping THEN "crossfade" ELSE action

\* audioTrigger.ts:91-104
triggerSound(mappingId, action) ==
  IF mappingId \notin MappingIds
  THEN /\ trigOut' = <<>>
       /\ UNCHANGED currentlyPlaying
  ELSE /\ trigOut' = <<Trigger(mappingId, finalAction(currentlyPlaying, action), FALSE)>>
       /\ currentlyPlaying' = mappingId

\* audioTrigger.ts:43-53: the keyword mappings whose pattern matches, in list order.
KeywordMatches(text) ==
  SelectSeq(soundMappings,
            LAMBDA m : m.triggerType = "keyword" /\ PatternTest(m.triggerValue, text))

checkKeywordTriggers(text) ==
  /\ trigCall' = Call("checkKeywordTriggers", text, 0)
  /\ IF Len(KeywordMatches(text)) > 0
     THEN triggerSound(KeywordMatches(text)[1].id, "play")
     ELSE /\ trigOut' = <<>>
          /\ UNCHANGED currentlyPlaying

\* audioTrigger.ts:62-64
SceneMappings(scene) ==
  SelectSeq(soundMappings,
            LAMBDA m : m.triggerType = "scene" /\ m.triggerValue = scene)

\* Mutant: a scene change asks for play.
SceneActionPlay == "play"

\* audioTrigger.ts:67
SceneAction == "crossfade"

\* A threshold test that lets every detection through.
lowConfidenceNever(confidence) == FALSE

\* audioTrigger.ts:59 and autoAudioService.ts:138: `confidence < 0.6`
lowConfidence(confidence) == confidence < SceneConfidenceMin

\* audioTrigger.ts:58-69
handleSceneChange(scene, confidence) ==
  /\ trigCall' = Call("handleSceneChange", scene, confidence)
  /\ IF /\ ~lowConfidence(confidence)
        /\ Len(SceneMappings(scene)) > 0
        /\ SceneMappings(scene)[1].id # currentlyPlaying
     THEN triggerSound(SceneMappings(scene)[1].id, SceneAction)
     ELSE /\ trigOut' = <<>>
          /\ UNCHANGED currentlyPlaying

\* audioTrigger.ts:74-76
manualTrigger(mappingId) ==
  /\ trigCall' = Call("manualTrigger", mappingId, 0)
  /\ triggerSound(mappingId, "play")

\* audioTrigger.ts:81-89
stopAudio ==
  /\ trigCall' = Call("stopAudio", "", 0)
  /\ IF currentlyPlaying # NoMapping
     THEN /\ trigOut' = <<Trigger(currentlyPlaying, "stop", FALSE)>>
          /\ currentlyPlaying' = NoMapping
     ELSE /\ trigOut' = <<>>
          /\ UNCHANGED currentlyPlaying

\* index.ts:470-477 socket.on('audio:manual-trigger'): the handler emits
\* audio:trigger itself and does not call the engine.
AudioManualTrigger(mappingId) ==
  /\ trigCall' = Call("audio:manual-trigger", mappingId, 0)
  /\ trigOut' = <<Trigger(mappingId, "play", TRUE)>>
  /\ UNCHANGED currentlyPlaying

\* --------------------------- Auto-Audio Director (services/autoAudioService.ts)
\* autoAudioService.ts:64
effectCooldown == 30000
\* autoAudioService.ts:55
maxRecentSegments == 10
\* autoAudioService.ts:117  recentSegments.length % 3
AnalysisEvery == 3
\* One step of the clock, the last instant modelled, and the number of
\* director operations one run starts.
TickMs == 10000
MaxTime == 30000
MaxAutoOps == 3

NoTrack == "null"
EffectTracks == {"fs-1", "fs-2"}
MusicTracks == {"tta-1"}
AutoScenes == {"ambient", "combat"}
\* Transcript texts handed to the director.
AutoTexts == {"I attack with my sword", "we keep walking"}
\* aiAudioAnalyzer.ts:209-239 detectQuickEffects: the search query, or null.
detectQuickEffects(text) ==
  IF text = "I attack with my sword" THEN "sword clash metal" ELSE NoTrack
\* Values of Math.random() * 100.
RandomDraws == {0, 99}
Urgencies == {0, 1}
\* autoAudioService.ts:177-180
shouldPlayEffect(chance, draw) == draw < chance
\* autoAudioService.ts:167  effectFrequency * (0.5 + urgency * 0.5)
adjustedChance(urgency) == (settings.effectFrequency * (1 + urgency)) \div 2

DefaultSettings ==
  [enabled |-> TRUE, effectFrequency |-> 50, musicEnabled |-> TRUE, effectsEnabled |-> TRUE]
SettingsUpdates ==
  {<<"enabled", b>> : b \in BOOLEAN} \cup {<<"musicEnabled", b>> : b \in BOOLEAN}
    \cup {<<"effectsEnabled", b>> : b \in BOOLEAN}
    \cup {<<"effectFrequency", f>> : f \in {0, 50, 100}}
\* What analyzeForAudio can resolve to: null, or a suggestion with a scene
\* change, a sound effect, or both.
Suggestions ==
  {[none |-> TRUE, sceneChange |-> FALSE, newScene |-> "ambient", soundEffect |-> FALSE,
    urgency |-> 0]}
    \cup [none : {FALSE}, sceneChange : BOOLEAN, newScene : AutoScenes,
          soundEffect : BOOLEAN, urgency : Urgencies]

AutoInit ==
  /\ now = 0
  /\ settings = DefaultSettings
  /\ recentSegments = 0
  /\ currentScene = "ambient"
  /\ currentMusicTrackId = NoTrack
  /\ playedEffectsRecently = {}
  /\ cooldownTimers = {}
  /\ autoTasks = {}
  /\ autoOps = 0
  /\ autoLog = <<>>

AutoTask(kind, thenEffect, urgency) ==
  [kind |-> kind, n |-> autoOps + 1, thenEffect |-> thenEffect, urgency |-> urgency]

\* The clock advances.
AutoTick ==
  /\ now + TickMs <= MaxTime
  /\ now' = now + TickMs
  /\ UNCHANGED <<settings, recentSegments, currentScene, currentMusicTrackId,
                 playedEffectsRecently, cooldownTimers, autoTasks, autoOps, autoLog>>

\* autoAudioService.ts:75-78
updateSettings(field, value) ==
  /\ settings' = [settings EXCEPT ![field] = value]
  /\ UNCHANGED <<now, recentSegments, currentScene, currentMusicTrackId,
                 playedEffectsRecently, cooldownTimers, autoTasks, autoOps, autoLog>>

\* autoAudioService.ts:94-130, up to the first await.
processSegment(text, draw) ==
  /\ autoOps' = autoOps + 1
  /\ IF ~settings.enabled
     THEN UNCHANGED <<recentSegments, autoTasks>>
     ELSE /\ recentSegments' = Min(recentSegments + 1, maxRecentSegments)
          /\ IF /\ settings.effectsEnabled
                /\ detectQuickEffects(text) # NoTrack
                /\ shouldPlayEffect(settings.effectFrequency, draw)
             THEN autoTasks' = autoTasks \cup {AutoTask("effect", FALSE, 0)}
             ELSE IF recentSegments' % AnalysisEvery = 0
                  THEN autoTasks' = autoTasks \cup {AutoTask("analysis", FALSE, 0)}
                  ELSE UNCHANGED autoTasks
  /\ UNCHANGED <<now, settings, currentScene, currentMusicTrackId,
                 playedEffectsRecently, cooldownTimers, autoLog>>

\* autoAudioService.ts:135-146, up to the await inside searchAndPlayMusic.
autoHandleSceneChange(scene, confidence) ==
  /\ autoOps < MaxAutoOps
  /\ autoOps' = autoOps + 1
  /\ IF \/ ~settings.enabled
        \/ ~settings.musicEnabled
        \/ lowConfidence(confidence)
        \/ scene = currentScene
     THEN UNCHANGED <<currentScene, autoTasks>>
     ELSE /\ currentScene' = scene
          /\ autoTasks' = autoTasks \cup {AutoTask("music", FALSE, 0)}
  /\ UNCHANGED <<now, settings, recentSegments, currentMusicTrackId,
                 playedEffectsRecently, cooldownTimers, autoLog>>

\* autoAudioService.ts:163-171: the sound-effect half of handleSuggestion.
SuggestedEffect(t, wanted, urgency, draw) ==
  IF wanted /\ settings.effectsEnabled /\ shouldPlayEffect(adjustedChance(urgency), draw)
  THEN {[kind |-> "effect", n |-> t.n, thenEffect |-> FALSE, urgency |-> 0]}
  ELSE {}

\* autoAudioService.ts:123-127 and 151-172: analyzeForAudio has resolved.
AnalysisDone(t, suggestion, draw) ==
  /\ t \in autoTasks /\ t.kind = "analysis"
  /\ IF suggestion.none
     THEN /\ autoTasks' = autoTasks \ {t}
          /\ UNCHANGED currentScene
     ELSE IF /\ suggestion.sceneChange
             /\ settings.musicEnabled
             /\ suggestion.newScene # currentScene
          THEN /\ currentScene' = suggestion.newScene
               /\ autoTasks' = (autoTasks \ {t}) \cup
                    {[kind |-> "music", n |-> t.n, thenEffect |-> suggestion.soundEffect,
                      urgency |-> suggestion.urgency]}
          ELSE /\ autoTasks' = (autoTasks \ {t}) \cup
                    SuggestedEffect(t, suggestion.soundEffect, suggestion.urgency, draw)
               /\ UNCHANGED currentScene
  /\ UNCHANGED <<now, settings, recentSegments, currentMusicTrackId,
                 playedEffectsRecently, cooldownTimers, autoOps, autoLog>>

\* autoAudioService.ts:213-224: the music search has resolved; then the rest
\* of handleSuggestion (163-171) when the search was started from it.
MusicDone(t, track, draw) ==
  /\ t \in autoTasks /\ t.kind = "music"
  /\ IF track # NoTrack /\ track # currentMusicTrackId
     THEN /\ currentMusicTrackId' = track
          /\ autoLog' = Append(autoLog,
               [type |-> "music", action |-> "crossfade", track |-> track, at |-> now])
     ELSE UNCHANGED <<currentMusicTrackId, autoLog>>
  /\ autoTasks' = (autoTasks \ {t}) \cup SuggestedEffect(t, t.thenEffect, t.urgency, draw)
  /\ UNCHANGED <<now, settings, recentSegments, currentScene,
                 playedEffectsRecently, cooldownTimers, autoOps>>

\* autoAudioService.ts:363-377: searchFreesoundEffect has resolved.
EffectDone(t, track) ==
  /\ t \in autoTasks /\ t.kind = "effect"
  /\ autoTasks' = autoTasks \ {t}
  /\ IF track # NoTrack /\ track \notin playedEffectsRecently
     THEN /\ playedEffectsRecently' = playedEffectsRecently \cup {track}
          /\ cooldownTimers' = cooldownTimers \cup
               {[track |-> track, due |-> now + effectCooldown, n |-> Len(autoLog)]}
          /\ autoLog' = Append(autoLog,
               [type |-> "effect", action |-> "play", track |-> track, at |-> now])
     ELSE UNCHANGED <<playedEffectsRecently, cooldownTimers, autoLog>>
  /\ UNCHANGED <<now, settings, recentSegments, currentScene, currentMusicTrackId, autoOps>>

\* autoAudioService.ts:366-368: the setTimeout callback runs.
CooldownExpire(timer) ==
  /\ timer \in cooldownTimers
  /\ timer.due <= now
  /\ cooldownTimers' = cooldownTimers \ {timer}
  /\ playedEffectsRecently' = playedEffectsRecently \ {timer.track}
  /\ UNCHANGED <<now, settings, recentSegments, currentScene, currentMusicTrackId,
                 autoTasks, autoOps, autoLog>>

\* autoAudioService.ts:555-564
reset ==
  /\ currentScene' = "ambient"
  /\ recentSegments' = 0
  /\ currentMusicTrackId' = NoTrack
  /\ playedEffectsRecently' = {}
  /\ UNCHANGED <<now, settings, cooldownTimers, autoTasks, autoOps, autoLog>>

\* ------------------------------- health events (websocket/index.ts:329-371, 538-571)
\* The campaign's player: 30 of 45 hit points.
PlayerMaxHp == 45
PlayerStartHp == 30
MaxHealthValue == 50
MaxHealthEvents == 1
MaxConfirms == 2

PlayerName == "Thorin"
CharacterNames == {"Thorin", "Stranger"}
HealthTypes == {"damage", "healing", "status"}
\* Values the extraction or the client can carry.
HealthValues == {0 - MaxHealthValue, 0 - 12, 0, 12, MaxHealthValue}
\* data.modifiedValue: absent, or a number.
ModifiedValues ==
  {[given |-> FALSE, v |-> 0]} \cup {[given |-> TRUE, v |-> v] : v \in HealthValues}
NoApply == [type |-> "none", value |-> 0, before |-> 0, after |-> 0]

HealthInit ==
  /\ healthEvents = <<>>
  /\ currentHp = PlayerStartHp
  /\ confirmTasks = {}
  /\ confirms = 0
  /\ healthOut = <<>>
  /\ lastApply = NoApply

\* index.ts:334-364: extractHealthEvents has resolved with one event.
\* value: event.value || null
HealthExtracted(characterName, type, value) ==
  /\ Len(healthEvents) < MaxHealthEvents
  /\ IF characterName = PlayerName
     THEN /\ healthEvents' = Append(healthEvents,
               [type |-> type, hasValue |-> value # 0, value |-> value, confirmed |-> FALSE,
                writes |-> 0, applied |-> 0])
          /\ healthOut' = <<[event |-> "health:event", id |-> Len(healthEvents) + 1,
                             currentHp |-> 0]>>
     ELSE /\ healthOut' = <<>>
          /\ UNCHANGED healthEvents
  /\ UNCHANGED <<currentHp, confirmTasks, confirms, lastApply>>

\* index.ts:551-556
newHp(type, hp, value) ==
  IF type = "damage" THEN Max(0, hp - value)
  ELSE IF type = "healing" THEN Min(PlayerMaxHp, hp + value)
  ELSE hp

\* Mutant: the delta is applied whether or not the message confirms.
ShouldApplyUnconfirmed(confirmed, hasValue) == hasValue

\* index.ts:549  data.confirmed && event.value !== null
ShouldApply(confirmed, hasValue) == confirmed /\ hasValue

\* index.ts:538-549: prisma.healthEvent.update and the read of the player.
HealthConfirm(eventId, confirmed, modifiedValue) ==
  /\ confirms < MaxConfirms
  /\ confirms' = confirms + 1
  /\ healthOut' = <<>>
  /\ IF eventId \in 1..Len(healthEvents)
     THEN LET old == healthEvents[eventId]
              hasValue == IF modifiedValue.given THEN TRUE ELSE old.hasValue
              value == IF modifiedValue.given THEN modifiedValue.v ELSE old.value
              changed == confirmed # old.confirmed \/ hasValue # old.hasValue
                           \/ value # old.value
              event == [old EXCEPT !.confirmed = confirmed, !.hasValue = hasValue,
                                   !.value = value,
                                   !.writes = old.writes + (IF changed THEN 1 ELSE 0)]
          IN /\ healthEvents' = [healthEvents EXCEPT ![eventId] = event]
             /\ IF ShouldApply(confirmed, hasValue)
                THEN confirmTasks' = confirmTasks \cup
                       {[eventId |-> eventId, n |-> confirms + 1, type |-> event.type,
                         value |-> value, hp |-> currentHp]}
                ELSE UNCHANGED confirmTasks
     ELSE UNCHANGED <<healthEvents, confirmTasks>>
  /\ UNCHANGED <<currentHp, lastApply>>

\* index.ts:549-566: the HP computation, prisma.player.update and the emit.
HealthConfirmApply(t) ==
  /\ t \in confirmTasks
  /\ confirmTasks' = confirmTasks \ {t}
  /\ currentHp' = newHp(t.type, t.hp, t.value)
  /\ lastApply' = [type |-> t.type, value |-> t.value, before |-> t.hp, after |-> currentHp']
  /\ healthEvents' =
       [healthEvents EXCEPT ![t.eventId].applied =
          @ + (IF t.type \in {"damage", "healing"} THEN 1 ELSE 0)]
  /\ healthOut' = <<[event |-> "player:updated", id |-> t.eventId, currentHp |-> currentHp']>>
  /\ UNCHANGED confirms

\* --------------- session lifecycle on one connection (websocket/index.ts:123-657)
MaxLcOps == 3
MaxLcSegments == 1

\* Session ids a client can send: two existing sessions, one unknown id and
\* the empty id.  s1 belongs to alice's campaign, s2 to bob's.
KnownSessions == {"s1", "s2"}
SessionIdsSent == KnownSessions \cup {"s9", ""}
Users == {"alice", "bob"}
\* socket.data.userId before any authenticate
NoUser == "undefined"
campaignUserId(sessionId) == IF sessionId = "s1" THEN "alice" ELSE "bob"
NoState == [n |-> 0, sessionId |-> "", isActive |-> FALSE]
NoLcCall == [op |-> "none", sessionId |-> "", n |-> 0]
LcCall(op, sessionId, n) == [op |-> op, sessionId |-> sessionId, n |-> n]

LifecycleInit ==
  /\ userId = NoUser
  /\ records = [id \in KnownSessions |->
                  [status |-> "scheduled", transcript |-> <<>>, recap |-> FALSE]]
  /\ currentSessionState = NoState
  /\ instances = <<>>
  /\ startTasks = {}
  /\ endTasks = {}
  /\ discTasks = {}
  /\ connected = TRUE
  /\ lcOps = 0
  /\ lcCall = NoLcCall
  /\ lcOut = <<>>

\* index.ts:30-42 saveTranscript: nothing for an empty buffer; a failed
\* update is logged and swallowed.
saveTranscript(recs, sessionId, segments, ok) ==
  IF Len(segments) = 0 \/ ~ok THEN recs
  ELSE [recs EXCEPT ![sessionId].transcript = segments]

\* The transcriptSegments array of the n-th session:start: its k-th segment
\* is <<n, k>> (every segment gets a fresh uuid, transcription.ts:247).
Buffer(insts, n) == [k \in 1..insts[n].buffer |-> <<n, k>>]

\* index.ts:592-594, 640-642 clearInterval(currentSessionState.saveInterval)
clearSaveInterval(insts, n) == [insts EXCEPT ![n].timer = FALSE]
\* transcription.ts:369-384 close(), as far as the orchestrator sees it
closeAdapter(insts, n) == [insts EXCEPT ![n].adapter = FALSE]

\* index.ts:130-139 socket.on('authenticate')
Authenticate(user) ==
  /\ connected /\ lcOps < MaxLcOps
  /\ lcOps' = lcOps + 1
  /\ userId' = user
  /\ lcCall' = LcCall("authenticate", "", 0)
  /\ lcOut' = <<"authenticated">>
  /\ UNCHANGED <<records, currentSessionState, instances, startTasks, endTasks, discTasks, connected>>

\* index.ts:142-154 session:start up to `await prisma.session.findUnique`
StartRequested(sessionId) ==
  /\ connected /\ lcOps < MaxLcOps
  /\ lcOps' = lcOps + 1
  /\ lcCall' = LcCall("session:start", sessionId, 0)
  /\ IF sessionId = ""
     THEN /\ lcOut' = <<"error">>
          /\ UNCHANGED startTasks
     ELSE /\ lcOut' = <<>>
          /\ startTasks' = startTasks \cup
               {[sessionId |-> sessionId, k |-> lcOps + 1, pc |-> "findUnique"]}
  /\ UNCHANGED <<userId, records, currentSessionState, instances, endTasks, discTasks, connected>>

\* index.ts:156-179 after findUnique: not found is an error; otherwise the
\* status update is issued (it can fail into the catch of 413-416).
StartFound(t, ok) ==
  /\ t \in startTasks /\ t.pc = "findUnique"
  /\ lcCall' = LcCall("session:start:found", t.sessionId, 0)
  /\ IF t.sessionId \notin KnownSessions \/ ~ok
     THEN /\ lcOut' = <<"error">>
          /\ startTasks' = startTasks \ {t}
          /\ UNCHANGED records
     ELSE /\ lcOut' = <<>>
          /\ records' = [records EXCEPT ![t.sessionId].status = "in_progress"]
          /\ startTasks' = (startTasks \ {t}) \cup {[t EXCEPT !.pc = "update"]}
  /\ UNCHANGED <<userId, currentSessionState, instances, endTasks, discTasks, connected, lcOps>>

\* index.ts:181-411 after the status update: services, adapter, save
\* interval, currentSessionState, session:started.
StartUpdated(t) ==
  /\ t \in startTasks /\ t.pc = "update"
  /\ startTasks' = startTasks \ {t}
  /\ instances' = Append(instances,
       [sessionId |-> t.sessionId, timer |-> TRUE, adapter |-> TRUE, buffer |-> 0])
  /\ currentSessionState' = [n |-> Len(instances) + 1, sessionId |-> t.sessionId, isActive |-> TRUE]
  /\ lcCall' = LcCall("session:start:done", t.sessionId, Len(instances) + 1)
  /\ lcOut' = <<"session:started">>
  /\ UNCHANGED <<userId, records, endTasks, discTasks, connected, lcOps>>

\* index.ts:216-222 the adapter's callback stores a segment in the buffer of
\* the session:start that created the adapter.
SegmentBuffered(n) ==
  /\ n \in 1..Len(instances)
  /\ instances[n].adapter
  /\ instances[n].buffer < MaxLcSegments
  /\ instances' = [instances EXCEPT ![n].buffer = @ + 1]
  /\ lcCall' = LcCall("onSegment", instances[n].sessionId, n)
  /\ lcOut' = <<"transcript:segment">>
  /\ UNCHANGED <<userId, records, currentSessionState, startTasks, endTasks, discTasks, connected, lcOps>>

\* index.ts:379-383 the save interval's callback
SaveIntervalTick(n, ok) ==
  /\ n \in 1..Len(instances)
  /\ instances[n].timer
  /\ instances[n].buffer > 0
  /\ records' = saveTranscript(records, instances[n].sessionId, Buffer(instances, n), ok)
  /\ lcCall' = LcCall("saveInterval", instances[n].sessionId, n)
  /\ lcOut' = <<>>
  /\ UNCHANGED <<userId, currentSessionState, instances, startTasks, endTasks, discTasks, connected,
                 lcOps>>

\* index.ts:574-579 session:pause
PauseRequested ==
  /\ connected /\ lcOps < MaxLcOps
  /\ lcOps' = lcOps + 1
  /\ lcCall' = LcCall("session:pause", currentSessionState.sessionId, currentSessionState.n)
  /\ IF currentSessionState # NoState
     THEN /\ currentSessionState' = [currentSessionState EXCEPT !.isActive = FALSE]
          /\ lcOut' = <<"session:paused">>
     ELSE /\ lcOut' = <<>>
          /\ UNCHANGED currentSessionState
  /\ UNCHANGED <<userId, records, instances, startTasks, endTasks, discTasks, connected>>

\* index.ts:582-587 session:resume
ResumeRequested ==
  /\ connected /\ lcOps < MaxLcOps
  /\ lcOps' = lcOps + 1
  /\ lcCall' = LcCall("session:resume", currentSessionState.sessionId, currentSessionState.n)
  /\ IF currentSessionState # NoState
     THEN /\ currentSessionState' = [currentSessionState EXCEPT !.isActive = TRUE]
          /\ lcOut' = <<"session:resumed">>
     ELSE /\ lcOut' = <<>>
          /\ UNCHANGED currentSessionState
  /\ UNCHANGED <<userId, records, instances, startTasks, endTasks, discTasks, connected>>

\* index.ts:590-603 session:end up to the first await: the interval is
\* cleared and close() has run.
EndRequested ==
  /\ connected /\ lcOps < MaxLcOps
  /\ lcOps' = lcOps + 1
  /\ lcCall' = LcCall("session:end", currentSessionState.sessionId, currentSessionState.n)
  /\ lcOut' = <<>>
  /\ IF currentSessionState = NoState
     THEN UNCHANGED <<instances, endTasks>>
     ELSE /\ instances' = closeAdapter(clearSaveInterval(instances, currentSessionState.n), currentSessionState.n)
          /\ endTasks' = endTasks \cup {[k |-> lcOps + 1, pc |-> "close"]}
  /\ UNCHANGED <<userId, records, currentSessionState, startTasks, discTasks, connected>>

\* A continuation of session:end that finds currentSessionState null throws
\* into the catch of 629-632.
EndThrows(t) ==
  /\ endTasks' = endTasks \ {t}
  /\ lcOut' = <<"error">>
  /\ UNCHANGED <<records, currentSessionState>>

\* index.ts:605-607 after close(): saveTranscript of the current state
EndClosed(t, ok) ==
  /\ t \in endTasks /\ t.pc = "close"
  /\ lcCall' = LcCall("session:end:closed", currentSessionState.sessionId, currentSessionState.n)
  /\ IF currentSessionState = NoState
     THEN EndThrows(t)
     ELSE /\ records' = saveTranscript(records, currentSessionState.sessionId,
                                       Buffer(instances, currentSessionState.n), ok)
          /\ endTasks' = (endTasks \ {t}) \cup {[t EXCEPT !.pc = "save"]}
          /\ lcOut' = <<>>
          /\ UNCHANGED currentSessionState
  /\ UNCHANGED <<userId, instances, startTasks, discTasks, connected, lcOps>>

\* index.ts:609-613 after the save: the record is marked completed (the
\* update can fail into the catch)
EndSaved(t, ok) ==
  /\ t \in endTasks /\ t.pc = "save"
  /\ lcCall' = LcCall("session:end:saved", currentSessionState.sessionId, currentSessionState.n)
  /\ IF currentSessionState = NoState \/ ~ok
     THEN EndThrows(t)
     ELSE /\ records' = [records EXCEPT ![currentSessionState.sessionId].status = "completed"]
          /\ endTasks' = (endTasks \ {t}) \cup {[t EXCEPT !.pc = "update"]}
          /\ lcOut' = <<>>
          /\ UNCHANGED currentSessionState
  /\ UNCHANGED <<userId, instances, startTasks, discTasks, connected, lcOps>>

\* index.ts:615-628 after the update: recap started, session:ended emitted,
\* currentSessionState = null
EndUpdated(t) ==
  /\ t \in endTasks /\ t.pc = "update"
  /\ lcCall' = LcCall("session:end:done", currentSessionState.sessionId, currentSessionState.n)
  /\ IF currentSessionState = NoState
     THEN EndThrows(t)
     ELSE /\ records' = [records EXCEPT ![currentSessionState.sessionId].recap = TRUE]
          /\ endTasks' = endTasks \ {t}
          /\ lcOut' = <<"session:ended">>
          /\ currentSessionState' = NoState
  /\ UNCHANGED <<userId, instances, startTasks, discTasks, connected, lcOps>>

\* index.ts:636-654 disconnect up to its first await: the interval is
\* cleared; a non-empty buffer is saved, an empty one goes straight to close()
DisconnectRequested(ok) ==
  /\ connected
  /\ connected' = FALSE
  /\ lcCall' = LcCall("disconnect", currentSessionState.sessionId, currentSessionState.n)
  /\ lcOut' = <<>>
  /\ IF currentSessionState = NoState
     THEN UNCHANGED <<records, instances, discTasks>>
     ELSE IF instances[currentSessionState.n].buffer > 0
          THEN /\ instances' = clearSaveInterval(instances, currentSessionState.n)
               /\ records' = saveTranscript(records, currentSessionState.sessionId,
                                            Buffer(instances, currentSessionState.n), ok)
               /\ discTasks' = discTasks \cup {[pc |-> "save", n |-> currentSessionState.n]}
          ELSE /\ instances' = closeAdapter(clearSaveInterval(instances, currentSessionState.n),
                                            currentSessionState.n)
               /\ discTasks' = discTasks \cup {[pc |-> "close", n |-> currentSessionState.n]}
               /\ UNCHANGED records
  /\ UNCHANGED <<userId, currentSessionState, startTasks, endTasks, lcOps>>

\* index.ts:650-653 after the save: close() of the current state's adapter
DisconnectSaved(t) ==
  /\ t \in discTasks /\ t.pc = "save"
  /\ lcCall' = LcCall("disconnect:saved", currentSessionState.sessionId, currentSessionState.n)
  /\ lcOut' = <<>>
  /\ IF currentSessionState = NoState
     THEN /\ discTasks' = discTasks \ {t}
          /\ UNCHANGED instances
     ELSE /\ instances' = closeAdapter(instances, currentSessionState.n)
          /\ discTasks' = (discTasks \ {t}) \cup {[t EXCEPT !.pc = "close"]}
  /\ UNCHANGED <<userId, records, currentSessionState, startTasks, endTasks, connected, lcOps>>

\* index.ts:654 after close(): activeSessions.delete(socket.id)
DisconnectClosed(t) ==
  /\ t \in discTasks /\ t.pc = "close"
  /\ discTasks' = discTasks \ {t}
  /\ lcCall' = LcCall("disconnect:done", currentSessionState.sessionId, currentSessionState.n)
  /\ lcOut' = <<>>
  /\ UNCHANGED <<userId, records, currentSessionState, instances, startTasks, endTasks, connected, lcOps>>

\* ================================= Transcription Adapter (transcription.ts)
\* Provider connections one adapter creates, and processAudioChunk calls.
MaxConns == 3
MaxChunks == 3

NoConnection == 0
\* A provider connection as the provider sees it.  fed: audio was sent on it
\* and its transcript has not been delivered yet.  The Open, Transcript,
\* Error and Close handlers of transcription.ts:92-127 stay registered on
\* every connection for its whole life: nothing removes them.
Connection(state) == [state |-> state, fed |-> FALSE]
NoAdCall == [op |-> "none", conn |-> NoConnection]
AdCall(op, conn) == [op |-> op, conn |-> conn]

\* transcription.ts:32-49 and 52-131: the constructor calls
\* initializeConnection(), which sets isConnecting, creates the connection
\* and suspends in waitForConnection().
AdapterInit ==
  /\ conns = <<Connection("connecting")>>
  /\ connection = 1
  /\ isConnecting = TRUE
  /\ isConnected = FALSE
  /\ keepAliveInterval = FALSE
  /\ audioChunkCount = 0
  /\ chunkTasks = {[pc |-> "init", id |-> 0]}
  /\ closed = FALSE
  /\ adCall = NoAdCall
  /\ adOut = <<>>

\* transcription.ts:92-102 LiveTranscriptionEvents.Open
ProviderOpen(k) ==
  /\ conns[k].state = "connecting"
  /\ conns' = [conns EXCEPT ![k].state = "open"]
  /\ isConnected' = TRUE
  /\ isConnecting' = FALSE
  /\ keepAliveInterval' = TRUE
  /\ adCall' = AdCall("open", k)
  /\ adOut' = <<>>
  /\ UNCHANGED <<connection, audioChunkCount, chunkTasks, closed>>

\* transcription.ts:104-106 and 185-258: handleTranscript returns early on an
\* empty transcript and calls onSegment otherwise.
ProviderTranscript(k, empty) ==
  /\ conns[k].state = "open"
  /\ conns[k].fed
  /\ conns' = [conns EXCEPT ![k].fed = FALSE]
  /\ adCall' = AdCall("transcript", k)
  /\ adOut' = IF empty THEN <<>> ELSE <<k>>
  /\ UNCHANGED <<connection, isConnecting, isConnected, keepAliveInterval,
                 audioChunkCount, chunkTasks, closed>>

\* transcription.ts:117-121 LiveTranscriptionEvents.Error: the flags are
\* cleared; the connection is neither closed nor forgotten.
ProviderError(k) ==
  /\ conns[k].state \in {"connecting", "open"}
  /\ isConnected' = FALSE
  /\ isConnecting' = FALSE
  /\ adCall' = AdCall("error", k)
  /\ adOut' = <<>>
  /\ UNCHANGED <<conns, connection, keepAliveInterval, audioChunkCount, chunkTasks, closed>>

\* transcription.ts:123-128 LiveTranscriptionEvents.Close
ProviderClose(k) ==
  /\ conns[k].state \in {"connecting", "open", "closing"}
  /\ conns' = [conns EXCEPT ![k] = Connection("closed")]
  /\ isConnected' = FALSE
  /\ isConnecting' = FALSE
  /\ keepAliveInterval' = FALSE
  /\ adCall' = AdCall("close-event", k)
  /\ adOut' = <<>>
  /\ UNCHANGED <<connection, audioChunkCount, chunkTasks, closed>>

\* transcription.ts:353-364: this.connection.send when the adapter holds a
\* connection and believes it is connected; a connection that is not open
\* takes no audio.
send(cs, c, flag) ==
  IF c # NoConnection /\ flag /\ cs[c].state = "open"
    THEN [cs EXCEPT ![c].fed = TRUE] ELSE cs

\* transcription.ts:334-351 (and 52-131 for a reconnect): processAudioChunk up
\* to its first await, or to its end when the adapter is connected.
processAudioChunk ==
  /\ audioChunkCount < MaxChunks
  /\ audioChunkCount' = audioChunkCount + 1
  /\ adCall' = AdCall("processAudioChunk", connection)
  /\ adOut' = <<>>
  /\ IF isConnected
       THEN /\ conns' = send(conns, connection, isConnected)
            /\ UNCHANGED <<connection, isConnecting, chunkTasks>>
       ELSE IF ~isConnecting
         THEN /\ Len(conns) < MaxConns
              /\ isConnecting' = TRUE
              /\ conns' = Append(conns, Connection("connecting"))
              /\ connection' = Len(conns) + 1
              /\ chunkTasks' = chunkTasks \cup {[pc |-> "init", id |-> audioChunkCount + 1]}
         ELSE /\ chunkTasks' = chunkTasks \cup {[pc |-> "wait", id |-> audioChunkCount + 1]}
              /\ UNCHANGED <<conns, connection, isConnecting>>
  /\ UNCHANGED <<isConnected, keepAliveInterval, closed>>

\* transcription.ts:140-160 and 132-138: waitForConnection resolves once
\* isConnected is set, rejects once isConnecting is cleared, and rejects after
\* ten seconds otherwise; the catch clears isConnecting and rethrows, so the
\* chunk is not sent.  Task 0 is the constructor's call, which sends nothing.
InitializeDone(t, timedOut) ==
  /\ t \in chunkTasks /\ t.pc = "init"
  /\ timedOut => (isConnecting /\ ~isConnected)
  /\ ~timedOut => (isConnected \/ ~isConnecting)
  /\ chunkTasks' = chunkTasks \ {t}
  /\ adCall' = AdCall("initializeConnection", connection)
  /\ adOut' = <<>>
  /\ IF isConnected
       THEN /\ conns' = IF t.id = 0 THEN conns ELSE send(conns, connection, isConnected)
            /\ UNCHANGED isConnecting
       ELSE /\ isConnecting' = FALSE
            /\ UNCHANGED conns
  /\ UNCHANGED <<connection, isConnected, keepAliveInterval, audioChunkCount, closed>>

\* transcription.ts:346-364: after the 100 ms wait the chunk is sent if the
\* adapter is connected by then.
WaitDone(t) ==
  /\ t \in chunkTasks /\ t.pc = "wait"
  /\ chunkTasks' = chunkTasks \ {t}
  /\ conns' = send(conns, connection, isConnected)
  /\ adCall' = AdCall("wait", connection)
  /\ adOut' = <<>>
  /\ UNCHANGED <<connection, isConnecting, isConnected, keepAliveInterval,
                 audioChunkCount, closed>>

\* transcription.ts:369-384 close(): requestClose on the current connection,
\* which then delivers nothing but its Close event.
close ==
  /\ keepAliveInterval' = FALSE
  /\ conns' = IF connection # NoConnection /\ conns[connection].state \in {"connecting", "open"}
                THEN [conns EXCEPT ![connection] = Connection("closing")]
                ELSE conns
  /\ connection' = NoConnection
  /\ isConnected' = FALSE
  /\ isConnecting' = FALSE
  /\ closed' = TRUE
  /\ adCall' = AdCall("close", connection)
  /\ adOut' = <<>>
  /\ UNCHANGED <<audioChunkCount, chunkTasks>>

\* ============== suggestion rate limiter shared by the sessions of a process
\* aiAudioAnalyzer.ts:88-89
minSceneChangeInterval == 30000
minEffectInterval == 5000

\* Two sessions live in one server process, each with its own
\* AutoAudioService (index.ts:200) and both using the exported
\* aiAudioAnalyzer (aiAudioAnalyzer.ts:430).
Sessions == {"A", "B"}
\* The fields hold 0 until a suggestion is accepted; Date.now() is far
\* beyond either interval, so a field of 0 lets every suggestion pass.
Never == 0 - 1
NoScene == "none"
\* What the suggestion model answers: a scene or none, an effect or none.
Parsed == [newScene : AutoScenes \cup {NoScene}, soundEffect : BOOLEAN]
NoLimCall == [session |-> "none", scene |-> FALSE, ownScene |-> FALSE,
              effect |-> FALSE, ownEffect |-> FALSE]

LimiterInit ==
  /\ lastSceneChangeTime = Never
  /\ lastEffectTime = Never
  /\ directorScene = [s \in Sessions |-> "ambient"]
  /\ sceneChangedAt = [s \in Sessions |-> Never]
  /\ ownSceneTime = [s \in Sessions |-> Never]
  /\ ownEffectTime = [s \in Sessions |-> Never]
  /\ limCall = NoLimCall

\* aiAudioAnalyzer.ts:170 and 182: `now - last > interval`
intervalPassed(last, interval) == last = Never \/ now - last > interval

\* aiAudioAnalyzer.ts:168-170
sceneChangeAccepted(s, parsed, last) ==
  /\ parsed.newScene # NoScene
  /\ parsed.newScene # directorScene[s]
  /\ intervalPassed(last, minSceneChangeInterval)

\* aiAudioAnalyzer.ts:180-182
effectAccepted(parsed, last) ==
  parsed.soundEffect /\ intervalPassed(last, minEffectInterval)

\* aiAudioAnalyzer.ts:162-191 analyzeForAudio after the model answered, and
\* autoAudioService.ts:151-160, the scene half of handleSuggestion with
\* music enabled.
analyzeForAudio(s, parsed) ==
  LET scene == sceneChangeAccepted(s, parsed, lastSceneChangeTime)
      effect == effectAccepted(parsed, lastEffectTime)
      ownScene == sceneChangeAccepted(s, parsed, ownSceneTime[s])
      ownEffect == effectAccepted(parsed, ownEffectTime[s])
  IN /\ lastSceneChangeTime' = IF scene THEN now ELSE lastSceneChangeTime
     /\ lastEffectTime' = IF effect THEN now ELSE lastEffectTime
     /\ directorScene' = IF scene THEN [directorScene EXCEPT ![s] = parsed.newScene]
                          ELSE directorScene
     /\ sceneChangedAt' = IF scene THEN [sceneChangedAt EXCEPT ![s] = now]
                           ELSE sceneChangedAt
     /\ ownSceneTime' = IF ownScene THEN [ownSceneTime EXCEPT ![s] = now] ELSE ownSceneTime
     /\ ownEffectTime' = IF ownEffect THEN [ownEffectTime EXCEPT ![s] = now]
                          ELSE ownEffectTime
     /\ limCall' = [session |-> s, scene |-> scene, ownScene |-> ownScene,
                    effect |-> effect, ownEffect |-> ownEffect]

\* autoAudioService.ts:135-146 handleSceneChange of the director of session
\* s, enabled and configured.
directorSceneChange(s, scene, confidence) ==
  /\ IF ~lowConfidence(confidence) /\ scene # directorScene[s]
     THEN /\ directorScene' = [directorScene EXCEPT ![s] = scene]
          /\ sceneChangedAt' = [sceneChangedAt EXCEPT ![s] = now]
     ELSE UNCHANGED <<directorScene, sceneChangedAt>>
  /\ limCall' = NoLimCall
  /\ UNCHANGED <<lastSceneChangeTime, lastEffectTime, ownSceneTime, ownEffectTime>>

\* index.ts:200-209 and autoAudioService.ts:555-564: session s starts with a
\* new director and calls reset(), which resets the shared analyzer
\* (aiAudioAnalyzer.ts:424-427).
sessionReset(s) ==
  /\ directorScene' = [directorScene EXCEPT ![s] = "ambient"]
  /\ sceneChangedAt' = [sceneChangedAt EXCEPT ![s] = Never]
  /\ lastSceneChangeTime' = Never
  /\ lastEffectTime' = Never
  /\ ownSceneTime' = [ownSceneTime EXCEPT ![s] = Never]
  /\ ownEffectTime' = [ownEffectTime EXCEPT ![s] = Never]
  /\ limCall' = NoLimCall

\* --------------------------- playback failures (index.ts:521-535)
\* Tracks a music search can return: one curated Tabletop Audio track and two
\* Jamendo tracks.
PlaybackTracks == {"tta-1", "jam-1", "jam-2"}
\* autoAudioService.ts:336-345 tabletopToAutoTrack, 397-413 searchJamendo: the
\* source carried by a track.
TrackSource(track) == IF track = "tta-1" THEN "tabletop" ELSE "jamendo"

PlaybackInit ==
  /\ unplayableTracks = {}
  /\ failedTracks = {}

\* aiAudioAnalyzer.ts:599-602 markAsUnplayable
markAsUnplayable(trackId) == unplayableTracks' = unplayableTracks \cup {trackId}

\* index.ts:521-535: the client reports that a track it was told to play
\* could not be played.
playbackFailed(trackId, source) ==
  /\ IF source = "tabletop"
     THEN markAsUnplayable(trackId)
     ELSE UNCHANGED unplayableTracks
  /\ failedTracks' = failedTracks \cup {trackId}

\* autoAudioService.ts:185-224 searchAndPlayMusic: what the search may return.
\* Curated tracks are filtered by the blacklist (lines 236, 291 and
\* aiAudioAnalyzer.ts:586-588); Jamendo results are not filtered (386-415).
searchResult(track) ==
  \/ track = NoTrack
  \/ TrackSource(track) = "tabletop" /\ track \notin unplayableTracks
  \/ TrackSource(track) = "jamendo"

\* ------------------------ client transcript (LiveSession.tsx:201-231)
ClientInit == transcript = <<>>

\* LiveSession.tsx:201-204: the event carries the segment just pushed.
onTranscriptSegment(prev, segment) == Append(prev, segment)

\* LiveSession.tsx:206-212
onSpeakerUpdated(prev, segmentId, speakerName) ==
  [i \in 1..Len(prev) |->
     IF prev[i].id = segmentId
     THEN [prev[i] EXCEPT !.speakerName = speakerName, !.isEdited = TRUE]
     ELSE prev[i]]

\* LiveSession.tsx:214-221
onTranscriptCorrected(prev, segmentId, text) ==
  [i \in 1..Len(prev) |->
     IF prev[i].id = segmentId THEN [prev[i] EXCEPT !.text = text] ELSE prev[i]]

\* LiveSession.tsx:223-231
onTranscriptMerged(prev, targetId, mergedId, newText) ==
  SelectSeq([i \in 1..Len(prev) |->
               IF prev[i].id = targetId THEN [prev[i] EXCEPT !.text = newText]
               ELSE prev[i]],
            LAMBDA x : x.id # mergedId)

\* One event handled by the client; ss is the server's buffer when the
\* events were emitted.
ClientHandles(prev, e, ss) ==
  IF e.type = "transcript:segment"
    THEN onTranscriptSegment(prev, [ss[IndexOf(ss, e.segmentId)] EXCEPT !.text = e.text])
  ELSE IF e.type = "speaker:updated"
    THEN onSpeakerUpdated(prev, e.segmentId, e.speakerName)
  ELSE IF e.type = "transcript:corrected"
    THEN onTranscriptCorrected(prev, e.segmentId, e.text)
  ELSE IF e.type = "transcript:merged"
    THEN onTranscriptMerged(prev, e.segmentId, e.mergedId, e.text)
  ELSE prev

RECURSIVE ClientHandlesAll(_, _, _, _)
ClientHandlesAll(prev, events, i, ss) ==
  IF i > Len(events) THEN prev
  ELSE ClientHandlesAll(ClientHandles(prev, events[i], ss), events, i + 1, ss)

\* The events of a step reach the client in the order emitted.
Delivered == transcript' = ClientHandlesAll(transcript, out', 1, segs')

\* ---------------------------------- reconnecting (index.ts:123-128)
ResumeInit == flushed = [id \in KnownSessions |-> <<>>]

\* index.ts:123-128 io.on('connection'): a new socket with its own
\* currentSessionState = null, once the handlers of the lost one have
\* finished.  What earlier session:start created stays in the process.
Reconnect ==
  /\ ~connected
  /\ startTasks = {} /\ endTasks = {} /\ discTasks = {}
  /\ connected' = TRUE
  /\ currentSessionState' = NoState
  /\ userId' = NoUser
  /\ lcCall' = LcCall("connection", "", 0)
  /\ lcOut' = <<>>
  /\ UNCHANGED <<records, instances, startTasks, endTasks, discTasks, lcOps>>

\* index.ts:644-648: what the disconnect handler has just persisted.
DisconnectFlush(ok) ==
  IF /\ currentSessionState # NoState /\ ok
     /\ instances[currentSessionState.n].buffer > 0
  THEN flushed' = [flushed EXCEPT ![currentSessionState.sessionId] =
                     records'[currentSessionState.sessionId].transcript]
  ELSE UNCHANGED flushed

Init ==
  /\ SessionInit /\ TriggerInit /\ AutoInit /\ HealthInit /\ LifecycleInit
  /\ AdapterInit
  /\ LimiterInit
  /\ PlaybackInit
  /\ ClientInit
  /\ ResumeInit

\* ------------------------------------- session lifecycle (index.ts:142-657)
\* index.ts:142-418 session:start
SessionStart ==
  /\ sess = "idle"
  /\ sess' = "active"
  /\ out' = <<Event("session:started", NoId, NoId, <<>>, NoName)>>
  /\ lastMut' = {}
  /\ UNCHANGED <<segs, nextId, lastSceneIdx, lastAttrIdx, lastBatch, mergedSegmentIds, mergedLog,
                 nameCorrections, corrTasks, attrTasks, sceneTasks, manualTasks,
                 extras>>

\* index.ts:574-579 session:pause
SessionPause ==
  /\ sess = "active"
  /\ extras < MaxExtras
  /\ extras' = extras + 1
  /\ sess' = "paused"
  /\ out' = <<Event("session:paused", NoId, NoId, <<>>, NoName)>>
  /\ lastMut' = {}
  /\ UNCHANGED <<segs, nextId, lastSceneIdx, lastAttrIdx, lastBatch, mergedSegmentIds, mergedLog,
                 nameCorrections, corrTasks, attrTasks, sceneTasks, manualTasks>>

\* index.ts:582-587 session:resume
SessionResume ==
  /\ sess = "paused"
  /\ sess' = "active"
  /\ out' = <<Event("session:resumed", NoId, NoId, <<>>, NoName)>>
  /\ lastMut' = {}
  /\ UNCHANGED <<segs, nextId, lastSceneIdx, lastAttrIdx, lastBatch, mergedSegmentIds, mergedLog,
                 nameCorrections, corrTasks, attrTasks, sceneTasks, manualTasks,
                 extras>>

\* index.ts:590-633 session:end: timer cleared, adapter closed, transcript
\* saved, session:ended emitted, currentSessionState = null.  Nothing in it
\* reaches the promises in flight.
SessionEnd ==
  /\ sess \in {"active", "paused"}
  /\ sess' = "ended"
  /\ out' = <<Event("session:ended", NoId, NoId, <<>>, NoName)>>
  /\ lastMut' = {}
  /\ UNCHANGED <<segs, nextId, lastSceneIdx, lastAttrIdx, lastBatch, mergedSegmentIds, mergedLog,
                 nameCorrections, corrTasks, attrTasks, sceneTasks, manualTasks,
                 extras>>

\* index.ts:636-657 disconnect
Disconnect ==
  /\ sess \in {"active", "paused"}
  /\ sess' = "lost"
  /\ out' = <<>>
  /\ lastMut' = {}
  /\ UNCHANGED <<segs, nextId, lastSceneIdx, lastAttrIdx, lastBatch, mergedSegmentIds, mergedLog,
                 nameCorrections, corrTasks, attrTasks, sceneTasks, manualTasks,
                 extras>>

\* ------------------------------------------ onSegment callback (index.ts:216-372)
\* index.ts:286-294: the attribution batch started for segmentCount over the
\* buffer ss, or none.
AttributionDue(segmentCount, last) == segmentCount >= last + AttributionEvery

AttributionTask(ss, segmentCount) ==
  LET retroactiveStart == Max(0, segmentCount - AttributionWindow)
      sliceEnd == Min(segmentCount, Len(ss))
  IN [start |-> retroactiveStart,
      win |-> [i \in 1..Max(0, sliceEnd - retroactiveStart) |->
                 [id |-> ss[retroactiveStart + i].id, obj |-> Live]]]

\* index.ts:258-261
SceneDue(segmentCount, last) == segmentCount >= last + SceneEvery

\* index.ts:216-327, up to the end or to `await detectScene`.  `track` says
\* whether the deferred correction stays in flight.
OnSegment(u, track) ==
  /\ sess \in {"active", "paused"}
  /\ nextId <= MaxSegments
  /\ extras' = extras + (IF track THEN 1 ELSE 0) + (IF u # FirstSpeaker THEN 1 ELSE 0)
  /\ extras' <= MaxExtras
  /\ LET raw == NewSegment(nextId, u)
         segment == [raw EXCEPT !.text = correctTranscriptText(raw.text)]
         pushed == Append(segs, segment)
         segmentIndex == Len(pushed) - 1
         segmentCount == Len(pushed)
     IN /\ segs' = pushed
        /\ nextId' = nextId + 1
        /\ out' = <<Event("transcript:segment", segment.id, NoId,
                           segment.text, NoName)>>
        /\ corrTasks' = IF track
                        THEN corrTasks \cup {[id |-> segment.id, index |-> segmentIndex,
                                              text |-> segment.text, obj |-> Live]}
                        ELSE corrTasks
        /\ IF SceneDue(segmentCount, lastSceneIdx)
           THEN /\ lastSceneIdx' = segmentCount
                /\ sceneTasks' = sceneTasks \cup {[count |-> segmentCount]}
                /\ UNCHANGED <<lastAttrIdx, lastBatch, attrTasks>>
           ELSE /\ UNCHANGED <<lastSceneIdx, sceneTasks>>
                /\ IF AttributionDue(segmentCount, lastAttrIdx)
                   THEN /\ lastAttrIdx' = segmentCount
                        /\ lastBatch' = [emitted |-> nextId, len |-> Len(pushed),
                                         size |-> Len(AttributionTask(pushed, segmentCount).win)]
                        /\ attrTasks' = attrTasks \cup {AttributionTask(pushed, segmentCount)}
                   ELSE UNCHANGED <<lastAttrIdx, lastBatch, attrTasks>>
  /\ lastMut' = {}
  /\ UNCHANGED <<sess, mergedSegmentIds, mergedLog, nameCorrections, manualTasks>>

\* index.ts:269-327: the callback resumes after `await detectScene` (which
\* resolved, ok, or threw) and goes on to the attribution check.
SceneResolve(t, ok) ==
  /\ t \in sceneTasks
  /\ sceneTasks' = sceneTasks \ {t}
  /\ out' = IF ok THEN <<Event("scene:detected", NoId, NoId, <<>>, NoName)>>
            ELSE <<>>
  /\ IF AttributionDue(t.count, lastAttrIdx)
     THEN /\ lastAttrIdx' = t.count
          /\ lastBatch' = [emitted |-> nextId - 1, len |-> Len(segs),
                           size |-> Len(AttributionTask(segs, t.count).win)]
          /\ attrTasks' = attrTasks \cup {AttributionTask(segs, t.count)}
     ELSE UNCHANGED <<lastAttrIdx, lastBatch, attrTasks>>
  /\ lastMut' = {}
  /\ UNCHANGED <<sess, segs, nextId, lastSceneIdx, mergedSegmentIds, mergedLog, nameCorrections,
                 corrTasks, manualTasks, extras>>

\* index.ts:235-247: correctTranscriptWithAI(...).then; a write through an
\* index past the end of the array throws and .catch swallows it.
CorrResolve(t, reply) ==
  /\ t \in corrTasks
  /\ corrTasks' = corrTasks \ {t}
  /\ nameCorrections' = LearnedAfter(t.text, reply)
  /\ LET correctedText == correctTranscriptWithAI(t.text, reply)
         segmentText == Seen(segs, t.id, t.obj).text
     IN IF correctedText # segmentText /\ t.index < Len(segs)
        THEN /\ segs' = [segs EXCEPT ![t.index + 1].text = correctedText]
             /\ out' = <<Event("transcript:corrected", t.id, NoId,
                                correctedText, NoName)>>
             /\ lastMut' = {<<t.id, segs[t.index + 1].id>>}
        ELSE /\ UNCHANGED segs
             /\ out' = <<>>
             /\ lastMut' = {}
  /\ UNCHANGED <<sess, nextId, lastSceneIdx, lastAttrIdx, lastBatch, mergedSegmentIds, mergedLog,
                 attrTasks, sceneTasks, manualTasks, extras>>

\* ------------------------------ attribution batch (ai.ts:161-257, index.ts:294-326)
\* Replies of the attribution model for a window of n segments: speaker a for
\* the first k segments and b for the rest; NoName is an index the reply
\* leaves out (ai.ts:237, newSpeaker = null).
AttrAnswers(n) ==
  {[i \in 1..n |-> IF i <= k THEN a ELSE b] :
     k \in 0..Min(MaxSplit, Max(0, n - 1)),
     a \in AttrNames \cup {NoName}, b \in AttrNames \cup {NoName}}

\* ai.ts:225-256: speakerName of result i; `failed` is the no-content and the
\* catch path, which return the captured segments themselves.
AttributedName(seen, newSpeaker, failed) ==
  IF failed THEN seen.speakerName
  ELSE IF newSpeaker # NoName THEN newSpeaker
  ELSE IF seen.speakerName # NoName THEN seen.speakerName
  ELSE seen.speakerLabel

\* index.ts:302-303
ShouldUpdate(currentSegment, attrName) ==
  attrName # NoName /\ attrName # currentSegment.speakerName

\* index.ts:297-315: forEach over the results, by globalIndex.
RECURSIVE SpeakerEvents(_, _, _, _, _)
SpeakerEvents(ss, start, attributed, i, events) ==
  IF i > Len(attributed) THEN events
  ELSE LET j == start + i
       IN IF j <= Len(ss) /\ ShouldUpdate(ss[j], attributed[i])
                          /\ effectiveSpeaker(ss[j]) # attributed[i]
          THEN SpeakerEvents(ss, start, attributed, i + 1,
                 Append(events, Event("speaker:updated", ss[j].id, NoId, <<>>,
                                      attributed[i])))
          ELSE SpeakerEvents(ss, start, attributed, i + 1, events)

\* The transcript:merged events among `events`, as <<targetId, mergedId>>.
MergedPairs(events) ==
  LET merged == SelectSeq(events, LAMBDA e : e.type = "transcript:merged")
  IN [i \in 1..Len(merged) |-> <<merged[i].segmentId, merged[i].mergedId>>]

ApplyAttribution(ss, start, attributed) ==
  [j \in 1..Len(ss) |->
     IF j - start \in 1..Len(attributed) /\ ShouldUpdate(ss[j], attributed[j - start])
     THEN [ss[j] EXCEPT !.speakerName = attributed[j - start]]
     ELSE ss[j]]

AttrResolve(t, ans, failed) ==
  /\ t \in attrTasks
  /\ LET attributed == [i \in 1..Len(t.win) |->
                          AttributedName(Seen(segs, t.win[i].id, t.win[i].obj),
                                         ans[i], failed)]
         updated == ApplyAttribution(segs, t.start, attributed)
         events == SpeakerEvents(segs, t.start, attributed, 1, <<>>)
         m == MergeSettled(updated, mergedSegmentIds, events)
     IN /\ segs' = m.segs
        /\ out' = m.out
        /\ mergedLog' = mergedLog \o MergedPairs(m.out)
        /\ mergedSegmentIds' = m.keys
        /\ lastMut' = {<<t.win[j - t.start].id, segs[j].id>> :
                         j \in {x \in 1..Len(segs) :
                                  /\ x - t.start \in 1..Len(attributed)
                                  /\ ShouldUpdate(segs[x], attributed[x - t.start])}}
        /\ corrTasks' = DetachCorr(corrTasks, m.before, m.toRemove)
        /\ attrTasks' = DetachAttr(attrTasks \ {t}, m.before, m.toRemove)
  /\ UNCHANGED <<sess, nextId, lastSceneIdx, lastAttrIdx, lastBatch, nameCorrections,
                 sceneTasks, manualTasks, extras>>

\* ------------------------------------ speaker:attribute (index.ts:437-467)
\* A manual correction that would also overwrite the diarization label.
withSpeakerNameAndLabel(segment, speakerName) ==
  [segment EXCEPT !.speakerLabel = speakerName, !.speakerName = speakerName,
                  !.isEdited = TRUE]

\* index.ts:449-453: the spread copy with speakerName and isEdited replaced.
withSpeakerName(segment, speakerName) ==
  [segment EXCEPT !.speakerName = speakerName, !.isEdited = TRUE]

\* Up to `await saveTranscript`: the buffer slot gets a copy of the segment.
SpeakerAttribute(segmentId, speakerName) ==
  /\ sess = "active"
  /\ extras < MaxExtras
  /\ extras' = extras + 1
  /\ IF segmentId \in Ids(segs)
     THEN /\ segs' = [segs EXCEPT ![IndexOf(segs, segmentId)] =
                        withSpeakerName(@, speakerName)]
          /\ corrTasks' = DetachCorr(corrTasks, segs, {segmentId})
          /\ attrTasks' = DetachAttr(attrTasks, segs, {segmentId})
          /\ manualTasks' = manualTasks \cup {[segmentId |-> segmentId,
                                               speakerName |-> speakerName]}
     ELSE UNCHANGED <<segs, corrTasks, attrTasks, manualTasks>>
  /\ out' = <<>>
  /\ lastMut' = {}
  /\ UNCHANGED <<sess, nextId, lastSceneIdx, lastAttrIdx, lastBatch, mergedSegmentIds, mergedLog,
                 nameCorrections, sceneTasks>>

\* After `await saveTranscript`: the broadcast to the session room.  With
\* currentSessionState = null (session ended) reading .sessionId throws into
\* the catch; after a disconnect the socket has left the room.
SpeakerAttributeSaved(t) ==
  /\ t \in manualTasks
  /\ manualTasks' = manualTasks \ {t}
  /\ out' = IF sess \in {"active", "paused"}
            THEN <<Event("speaker:updated", t.segmentId, NoId, <<>>, t.speakerName)>>
            ELSE <<>>
  /\ lastMut' = {}
  /\ UNCHANGED <<sess, segs, nextId, lastSceneIdx, lastAttrIdx, lastBatch, mergedSegmentIds, mergedLog,
                 nameCorrections, corrTasks, attrTasks, sceneTasks, extras>>

\* -------------------------------------------------------------- SpecSession
outsideSession == <<triggerVars, autoVars, healthVars, lifecycleVars, adapterVars, limiterVars, playbackVars, clientVars, resumeVars>>

SessionNext ==
  \/ SessionStart /\ UNCHANGED outsideSession
  \/ SessionPause /\ UNCHANGED outsideSession
  \/ SessionResume /\ UNCHANGED outsideSession
  \/ SessionEnd /\ UNCHANGED outsideSession
  \/ Disconnect /\ UNCHANGED outsideSession
  \/ \E u \in Utterances, track \in BOOLEAN :
       OnSegment(u, track) /\ UNCHANGED outsideSession
  \/ \E t \in sceneTasks, ok \in BOOLEAN :
       SceneResolve(t, ok) /\ UNCHANGED outsideSession
  \/ \E t \in corrTasks : \E reply \in Replies(t.text) :
       CorrResolve(t, reply) /\ UNCHANGED outsideSession
  \/ \E t \in attrTasks : \E ans \in AttrAnswers(Len(t.win)), failed \in BOOLEAN :
       AttrResolve(t, ans, failed) /\ UNCHANGED outsideSession
  \/ \E id \in 1..(nextId - 1), n \in ManualNames :
       SpeakerAttribute(id, n) /\ UNCHANGED outsideSession
  \/ \E t \in manualTasks : SpeakerAttributeSaved(t) /\ UNCHANGED outsideSession

SpecSession == Init /\ [][SessionNext]_vars

\* ---------------------------------------------------------------- SpecMerge
\* Segment appends, attribution batches and their merge passes alone: no
\* deferred correction stays in flight and the client sends nothing.
MergeNext ==
  \/ SessionStart /\ UNCHANGED outsideSession
  \/ \E u \in Utterances : OnSegment(u, FALSE) /\ UNCHANGED outsideSession
  \/ \E t \in sceneTasks, ok \in BOOLEAN :
       SceneResolve(t, ok) /\ UNCHANGED outsideSession
  \/ \E t \in attrTasks : \E ans \in AttrAnswers(Len(t.win)), failed \in BOOLEAN :
       AttrResolve(t, ans, failed) /\ UNCHANGED outsideSession

SpecMerge == Init /\ [][MergeNext]_vars

\* --------------------------------------------------------------- SpecLabels
\* One running session: appends, deferred corrections, scene detections,
\* attribution batches with their merge passes, manual speaker corrections.
\* Segments of a SpecLabels session.
MaxLabelSegments == 6

LabelsNext ==
  \/ SessionStart /\ UNCHANGED outsideSession
  \/ \E u \in Utterances, track \in BOOLEAN :
       nextId <= MaxLabelSegments /\ OnSegment(u, track) /\ UNCHANGED outsideSession
  \/ \E t \in sceneTasks, ok \in BOOLEAN :
       SceneResolve(t, ok) /\ UNCHANGED outsideSession
  \/ \E t \in corrTasks : \E reply \in Replies(t.text) :
       CorrResolve(t, reply) /\ UNCHANGED outsideSession
  \/ \E t \in attrTasks : \E ans \in AttrAnswers(Len(t.win)), failed \in BOOLEAN :
       AttrResolve(t, ans, failed) /\ UNCHANGED outsideSession
  \/ \E id \in 1..(nextId - 1), n \in ManualNames :
       SpeakerAttribute(id, n) /\ UNCHANGED outsideSession
  \/ \E t \in manualTasks : SpeakerAttributeSaved(t) /\ UNCHANGED outsideSession

SpecLabels == Init /\ [][LabelsNext]_vars

\* ---------------------------------------------------------------- SpecScene
\* index.ts:268-279: a resolved scene detection is handed to the Audio
\* Trigger Engine and then to the Auto-Audio Director.
sceneDetected(scene, confidence) ==
  /\ handleSceneChange(scene, confidence)
  /\ autoHandleSceneChange(scene, confidence)

\* Scene detections with both audio engines of the session, a DM who
\* triggers and stops sounds by hand and changes the auto-audio settings,
\* and the music searches that scene changes start.
SceneNext ==
  \/ \E scene \in Scenes \cup AutoScenes, confidence \in Confidences :
       sceneDetected(scene, confidence)
         /\ UNCHANGED <<sessionVars, healthVars, lifecycleVars, adapterVars, limiterVars, playbackVars, clientVars, resumeVars>>
  \/ \E mappingId \in RequestIds :
       manualTrigger(mappingId)
         /\ UNCHANGED <<sessionVars, autoVars, healthVars, lifecycleVars, adapterVars, limiterVars, playbackVars, clientVars, resumeVars>>
  \/ stopAudio /\ UNCHANGED <<sessionVars, autoVars, healthVars, lifecycleVars, adapterVars, limiterVars, playbackVars, clientVars, resumeVars>>
  \/ \E u \in SettingsUpdates :
       updateSettings(u[1], u[2])
         /\ UNCHANGED <<sessionVars, triggerVars, healthVars, lifecycleVars, adapterVars, limiterVars, playbackVars, clientVars, resumeVars>>
  \/ \E t \in autoTasks, track \in MusicTracks \cup {NoTrack}, draw \in RandomDraws :
       MusicDone(t, track, draw)
         /\ UNCHANGED <<sessionVars, triggerVars, healthVars, lifecycleVars, adapterVars, limiterVars, playbackVars, clientVars, resumeVars>>

SpecScene == Init /\ [][SceneNext]_vars

\* -------------------------------------------------------------- SpecTrigger
TriggerNext ==
  \/ \E text \in TriggerTexts :
       checkKeywordTriggers(text) /\ UNCHANGED <<sessionVars, autoVars, healthVars, lifecycleVars, adapterVars, limiterVars, playbackVars, clientVars, resumeVars>>
  \/ \E scene \in Scenes, confidence \in Confidences :
       handleSceneChange(scene, confidence) /\ UNCHANGED <<sessionVars, autoVars, healthVars, lifecycleVars, adapterVars, limiterVars, playbackVars, clientVars, resumeVars>>
  \/ \E mappingId \in RequestIds :
       manualTrigger(mappingId) /\ UNCHANGED <<sessionVars, autoVars, healthVars, lifecycleVars, adapterVars, limiterVars, playbackVars, clientVars, resumeVars>>
  \/ stopAudio /\ UNCHANGED <<sessionVars, autoVars, healthVars, lifecycleVars, adapterVars, limiterVars, playbackVars, clientVars, resumeVars>>
  \/ \E mappingId \in RequestIds :
       AudioManualTrigger(mappingId) /\ UNCHANGED <<sessionVars, autoVars, healthVars, lifecycleVars, adapterVars, limiterVars, playbackVars, clientVars, resumeVars>>

SpecTrigger == Init /\ [][TriggerNext]_vars

\* ----------------------------------------------------------------- SpecAuto
AutoNext ==
  \/ AutoTick /\ UNCHANGED <<sessionVars, triggerVars, healthVars, lifecycleVars, adapterVars, limiterVars, playbackVars, clientVars, resumeVars>>
  \/ \E u \in SettingsUpdates :
       updateSettings(u[1], u[2]) /\ UNCHANGED <<sessionVars, triggerVars, healthVars, lifecycleVars, adapterVars, limiterVars, playbackVars, clientVars, resumeVars>>
  \/ \E text \in AutoTexts, draw \in RandomDraws :
       /\ autoOps < MaxAutoOps
       /\ processSegment(text, draw)
       /\ UNCHANGED <<sessionVars, triggerVars, healthVars, lifecycleVars, adapterVars, limiterVars, playbackVars, clientVars, resumeVars>>
  \/ \E scene \in AutoScenes, confidence \in Confidences :
       autoHandleSceneChange(scene, confidence)
         /\ UNCHANGED <<sessionVars, triggerVars, healthVars, lifecycleVars, adapterVars, limiterVars, playbackVars, clientVars, resumeVars>>
  \/ \E t \in autoTasks, suggestion \in Suggestions, draw \in RandomDraws :
       AnalysisDone(t, suggestion, draw) /\ UNCHANGED <<sessionVars, triggerVars, healthVars, lifecycleVars, adapterVars, limiterVars, playbackVars, clientVars, resumeVars>>
  \/ \E t \in autoTasks, track \in MusicTracks \cup {NoTrack}, draw \in RandomDraws :
       MusicDone(t, track, draw) /\ UNCHANGED <<sessionVars, triggerVars, healthVars, lifecycleVars, adapterVars, limiterVars, playbackVars, clientVars, resumeVars>>
  \/ \E t \in autoTasks, track \in EffectTracks \cup {NoTrack} :
       EffectDone(t, track) /\ UNCHANGED <<sessionVars, triggerVars, healthVars, lifecycleVars, adapterVars, limiterVars, playbackVars, clientVars, resumeVars>>
  \/ \E timer \in cooldownTimers :
       CooldownExpire(timer) /\ UNCHANGED <<sessionVars, triggerVars, healthVars, lifecycleVars, adapterVars, limiterVars, playbackVars, clientVars, resumeVars>>
  \/ reset /\ UNCHANGED <<sessionVars, triggerVars, healthVars, lifecycleVars, adapterVars, limiterVars, playbackVars, clientVars, resumeVars>>

SpecAuto == Init /\ [][AutoNext]_vars

\* --------------------------------------------------------------- SpecWindow
\* A long run of segments through an enabled director whose suggestion model
\* and effect searches find nothing: the rolling window fills up.
MaxWindowSegments == 13
MaxPending == 2
NoSuggestion == CHOOSE suggestion \in Suggestions : suggestion.none

WindowNext ==
  \/ \E text \in AutoTexts, draw \in RandomDraws :
       /\ autoOps < MaxWindowSegments
       /\ Cardinality(autoTasks) < MaxPending
       /\ processSegment(text, draw)
       /\ UNCHANGED <<sessionVars, triggerVars, healthVars, lifecycleVars, adapterVars, limiterVars, playbackVars, clientVars, resumeVars>>
  \/ \E t \in autoTasks, draw \in RandomDraws :
       AnalysisDone(t, NoSuggestion, draw)
         /\ UNCHANGED <<sessionVars, triggerVars, healthVars, lifecycleVars, adapterVars, limiterVars, playbackVars, clientVars, resumeVars>>
  \/ \E t \in autoTasks :
       EffectDone(t, NoTrack)
         /\ UNCHANGED <<sessionVars, triggerVars, healthVars, lifecycleVars, adapterVars, limiterVars, playbackVars, clientVars, resumeVars>>

SpecWindow == Init /\ [][WindowNext]_vars

\* -------------------------------------------------------------- SpecLimiter
outsideLimiter == <<sessionVars, triggerVars, healthVars, lifecycleVars, adapterVars,
                    playbackVars, clientVars, resumeVars>>

LimiterNext ==
  \/ AutoTick /\ UNCHANGED <<outsideLimiter, limiterVars>>
  \/ \E s \in Sessions, parsed \in Parsed :
       analyzeForAudio(s, parsed) /\ UNCHANGED <<outsideLimiter, autoVars>>
  \/ \E s \in Sessions, scene \in AutoScenes, confidence \in Confidences :
       directorSceneChange(s, scene, confidence) /\ UNCHANGED <<outsideLimiter, autoVars>>
  \/ \E s \in Sessions : sessionReset(s) /\ UNCHANGED <<outsideLimiter, autoVars>>

SpecLimiter == Init /\ [][LimiterNext]_vars

\* ------------------------------------------------------------ SpecPlayback
\* Scene changes start music searches; the client reports failed tracks.
outsidePlayback == <<sessionVars, triggerVars, healthVars, lifecycleVars, adapterVars,
                     limiterVars, clientVars, resumeVars>>

PlaybackNext ==
  \/ \E scene \in AutoScenes, confidence \in Confidences :
       autoHandleSceneChange(scene, confidence) /\ UNCHANGED <<outsidePlayback, playbackVars, clientVars, resumeVars>>
  \/ \E t \in autoTasks, track \in PlaybackTracks \cup {NoTrack}, draw \in RandomDraws :
       /\ searchResult(track)
       /\ MusicDone(t, track, draw)
       /\ UNCHANGED <<outsidePlayback, playbackVars, clientVars, resumeVars>>
  \/ \E i \in 1..Len(autoLog) :
       /\ playbackFailed(autoLog[i].track, TrackSource(autoLog[i].track))
       /\ UNCHANGED <<outsidePlayback, autoVars>>

SpecPlayback == Init /\ [][PlaybackNext]_vars

\* -------------------------------------------------------------- SpecClient
\* The session with a client that applies every event it is sent.
outsideClient == <<triggerVars, autoVars, healthVars, lifecycleVars, adapterVars, limiterVars,
                   playbackVars, resumeVars>>

ClientNext ==
  \/ SessionStart /\ Delivered /\ UNCHANGED outsideClient
  \/ SessionEnd /\ Delivered /\ UNCHANGED outsideClient
  \/ \E u \in Utterances, track \in BOOLEAN :
       OnSegment(u, track) /\ Delivered /\ UNCHANGED outsideClient
  \/ \E t \in sceneTasks, ok \in BOOLEAN :
       SceneResolve(t, ok) /\ Delivered /\ UNCHANGED outsideClient
  \/ \E t \in corrTasks : \E reply \in Replies(t.text) :
       CorrResolve(t, reply) /\ Delivered /\ UNCHANGED outsideClient
  \/ \E t \in attrTasks : \E ans \in AttrAnswers(Len(t.win)), failed \in BOOLEAN :
       AttrResolve(t, ans, failed) /\ Delivered /\ UNCHANGED outsideClient
  \/ \E id \in 1..(nextId - 1), n \in ManualNames :
       SpeakerAttribute(id, n) /\ Delivered /\ UNCHANGED outsideClient
  \/ \E t \in manualTasks : SpeakerAttributeSaved(t) /\ Delivered /\ UNCHANGED outsideClient

SpecClient == Init /\ [][ClientNext]_vars

\* --------------------------------------------------------------- SpecHealth
HealthNext ==
  \/ \E characterName \in CharacterNames, type \in HealthTypes, value \in HealthValues :
       HealthExtracted(characterName, type, value)
         /\ UNCHANGED <<sessionVars, triggerVars, autoVars, lifecycleVars, adapterVars, limiterVars, playbackVars, clientVars, resumeVars>>
  \/ \E eventId \in 1..MaxHealthEvents, confirmed \in BOOLEAN,
        modifiedValue \in ModifiedValues :
       HealthConfirm(eventId, confirmed, modifiedValue)
         /\ UNCHANGED <<sessionVars, triggerVars, autoVars, lifecycleVars, adapterVars, limiterVars, playbackVars, clientVars, resumeVars>>
  \/ \E t \in confirmTasks :
       HealthConfirmApply(t) /\ UNCHANGED <<sessionVars, triggerVars, autoVars, lifecycleVars, adapterVars, limiterVars, playbackVars, clientVars, resumeVars>>

SpecHealth == Init /\ [][HealthNext]_vars

\* ------------------------------------------------------------ SpecLifecycle
outsideLifecycle == <<sessionVars, triggerVars, autoVars, healthVars, adapterVars, limiterVars, playbackVars, clientVars, resumeVars>>

LifecycleNext ==
  \/ \E user \in Users : Authenticate(user) /\ UNCHANGED outsideLifecycle
  \/ \E sessionId \in SessionIdsSent :
       StartRequested(sessionId) /\ UNCHANGED outsideLifecycle
  \/ \E t \in startTasks, ok \in BOOLEAN : StartFound(t, ok) /\ UNCHANGED outsideLifecycle
  \/ \E t \in startTasks : StartUpdated(t) /\ UNCHANGED outsideLifecycle
  \/ \E n \in 1..Len(instances) : SegmentBuffered(n) /\ UNCHANGED outsideLifecycle
  \/ \E n \in 1..Len(instances), ok \in BOOLEAN :
       SaveIntervalTick(n, ok) /\ UNCHANGED outsideLifecycle
  \/ PauseRequested /\ UNCHANGED outsideLifecycle
  \/ ResumeRequested /\ UNCHANGED outsideLifecycle
  \/ EndRequested /\ UNCHANGED outsideLifecycle
  \/ \E t \in endTasks, ok \in BOOLEAN : EndClosed(t, ok) /\ UNCHANGED outsideLifecycle
  \/ \E t \in endTasks, ok \in BOOLEAN : EndSaved(t, ok) /\ UNCHANGED outsideLifecycle
  \/ \E t \in endTasks : EndUpdated(t) /\ UNCHANGED outsideLifecycle
  \/ \E ok \in BOOLEAN : DisconnectRequested(ok) /\ UNCHANGED outsideLifecycle
  \/ \E t \in discTasks : DisconnectSaved(t) /\ UNCHANGED outsideLifecycle
  \/ \E t \in discTasks : DisconnectClosed(t) /\ UNCHANGED outsideLifecycle

SpecLifecycle == Init /\ [][LifecycleNext]_vars

\* -------------------------------------------------------------- SpecResume
\* The lifecycle with a client that reconnects after a disconnect.
outsideResume == <<sessionVars, triggerVars, autoVars, healthVars, adapterVars, limiterVars,
                   playbackVars, clientVars>>

ResumeNext ==
  \/ \E sessionId \in KnownSessions :
       StartRequested(sessionId) /\ UNCHANGED outsideLifecycle
  \/ \E t \in startTasks : StartFound(t, TRUE) /\ UNCHANGED outsideLifecycle
  \/ \E t \in startTasks : StartUpdated(t) /\ UNCHANGED outsideLifecycle
  \/ \E n \in 1..Len(instances) : SegmentBuffered(n) /\ UNCHANGED outsideLifecycle
  \/ \E n \in 1..Len(instances), ok \in BOOLEAN :
       SaveIntervalTick(n, ok) /\ UNCHANGED outsideLifecycle
  \/ EndRequested /\ UNCHANGED outsideLifecycle
  \/ \E t \in endTasks, ok \in BOOLEAN : EndClosed(t, ok) /\ UNCHANGED outsideLifecycle
  \/ \E t \in endTasks, ok \in BOOLEAN : EndSaved(t, ok) /\ UNCHANGED outsideLifecycle
  \/ \E t \in endTasks : EndUpdated(t) /\ UNCHANGED outsideLifecycle
  \/ \E ok \in BOOLEAN :
       DisconnectRequested(ok) /\ DisconnectFlush(ok) /\ UNCHANGED outsideResume
  \/ \E t \in discTasks : DisconnectSaved(t) /\ UNCHANGED outsideLifecycle
  \/ \E t \in discTasks : DisconnectClosed(t) /\ UNCHANGED outsideLifecycle
  \/ Reconnect /\ UNCHANGED outsideLifecycle

SpecResume == Init /\ [][ResumeNext]_vars

\* -------------------------------------------------------------- SpecAdapter
outsideAdapter == <<sessionVars, triggerVars, autoVars, healthVars, lifecycleVars,
                    limiterVars, playbackVars, clientVars, resumeVars>>

AdapterNext ==
  \/ \E k \in 1..Len(conns) : ProviderOpen(k) /\ UNCHANGED outsideAdapter
  \/ \E k \in 1..Len(conns), empty \in BOOLEAN :
       ProviderTranscript(k, empty) /\ UNCHANGED outsideAdapter
  \/ \E k \in 1..Len(conns) : ProviderError(k) /\ UNCHANGED outsideAdapter
  \/ \E k \in 1..Len(conns) : ProviderClose(k) /\ UNCHANGED outsideAdapter
  \/ processAudioChunk /\ UNCHANGED outsideAdapter
  \/ \E t \in chunkTasks, timedOut \in BOOLEAN :
       InitializeDone(t, timedOut) /\ UNCHANGED outsideAdapter
  \/ \E t \in chunkTasks : WaitDone(t) /\ UNCHANGED outsideAdapter
  \/ close /\ UNCHANGED outsideAdapter

SpecAdapter == Init /\ [][AdapterNext]_vars

\* ============================================================== claims
Origins(text) == {text[i].o : i \in 1..Len(text)}
MergedIn(events) == Len(SelectSeq(events, LAMBDA e : e.type = "transcript:merged"))

\* C1: merging never duplicates text.  Each segment id is the mergedId of at
\* most one transcript:merged event; the target of a merge is a segment that
\* has not itself been absorbed before; an absorbed segment is gone from the
\* buffer, so no later pass can concatenate it again; and no word occurs
\* twice in the buffer, neither within one text nor in two segments.
C1_MergeNeverDuplicates ==
  /\ \A i, j \in 1..Len(mergedLog) : i # j => mergedLog[i][2] # mergedLog[j][2]
  /\ \A i, j \in 1..Len(mergedLog) : i <= j => mergedLog[j][1] # mergedLog[i][2]
  /\ \A i \in 1..Len(mergedLog) : mergedLog[i][2] \notin Ids(segs)
  /\ \A i \in 1..Len(segs) : Cardinality(Origins(segs[i].text)) = Len(segs[i].text)
  /\ \A i, j \in 1..Len(segs) :
       i # j => Origins(segs[i].text) \cap Origins(segs[j].text) = {}

\* C1 witness: a merge pass has just absorbed a segment after an earlier pass
\* had already merged on the same buffer.
C1_Witness ==
  /\ MergedIn(out) >= 1
  /\ Len(mergedLog) > MergedIn(out)
  /\ attrTasks = {}

\* C2: every segment a background completion mutates is the segment its
\* closure captured (same id).
C2_MutatesCapturedSegment == \A p \in lastMut : p[1] = p[2]

AppliedAfterEnd == sess \in {"ended", "lost"} /\ (segs' # segs \/ Len(out') > 0)

\* C3: once session:end or the disconnect has been handled, the buffer is no
\* longer mutated and nothing is emitted for the session.
C3_NothingAppliedAfterEnd == [][~AppliedAfterEnd]_vars

RejectionKeepsState ==
  \A t \in corrTasks : \A reply \in Replies(t.text) :
    /\ Rejected(t.text, reply) <=> TooLong(StrLen(t.text), StrLen(reply))
    /\ (CorrResolve(t, reply) /\ Rejected(t.text, reply)) =>
         (segs' = segs /\ nameCorrections' = nameCorrections /\ Len(out') = 0)

\* C7: the deferred correction is rejected exactly when the reply is longer
\* than max(3*L, L+50), and a rejected correction leaves the buffer and the
\* dictionary alone and emits no transcript:corrected.
C7_RejectedCorrectionChangesNothing == [][RejectionKeepsState]_vars

EngineCalls == {"checkKeywordTriggers", "handleSceneChange", "manualTrigger", "stopAudio"}
SceneCallFires ==
  /\ trigCall.op = "handleSceneChange"
  /\ trigCall.confidence >= SceneConfidenceMin
  /\ Len(SceneMappings(trigCall.arg)) > 0
  /\ SceneMappings(trigCall.arg)[1].id # trigCall.before

\* C4: whatever the engine is called with, an event it emits while a mapping
\* is playing never carries action play (a play-type event is then a
\* crossfade), and currentlyPlaying is null or the id of an existing mapping.
C4_PlayingMeansCrossfade ==
  /\ currentlyPlaying \in MappingIds \cup {NoMapping}
  /\ (trigCall.op \in EngineCalls /\ trigCall.before # NoMapping) =>
       \A i \in 1..Len(trigOut) : trigOut[i].action # "play"

\* C4 witness: a keyword or manual trigger of the engine arrived while a
\* mapping was playing and an event went out for another mapping.
C4_Witness ==
  /\ trigCall.op \in {"checkKeywordTriggers", "manualTrigger"}
  /\ trigCall.before # NoMapping
  /\ Len(trigOut) = 1
  /\ trigOut[1].action = "crossfade"
  /\ trigOut[1].mappingId # trigCall.before

\* C5 as stated: a scene change (confidence >= 0.6, mapped scene) on an idle
\* engine emits {mappingId, action: play}; one to a different mapped scene
\* while a mapping is playing emits action crossfade.
C5_IdleSceneChangePlays ==
  SceneCallFires =>
    trigOut = <<Trigger(SceneMappings(trigCall.arg)[1].id,
                        IF trigCall.before = NoMapping THEN "play" ELSE "crossfade",
                        FALSE)>>

\* C5 amended: a scene change (confidence >= 0.6, mapped scene, mapping not
\* the one playing) emits {mappingId, action: crossfade} whether the engine
\* is idle or playing, and the slot becomes that mapping.
C5_SceneChangeCrossfades ==
  SceneCallFires =>
    /\ trigOut = <<Trigger(SceneMappings(trigCall.arg)[1].id, "crossfade", FALSE)>>
    /\ currentlyPlaying = SceneMappings(trigCall.arg)[1].id

\* C5 witness: with the combat mapping playing after a scene change, a scene
\* change to tavern has emitted its event.
C5_Witness ==
  /\ trigCall.op = "handleSceneChange"
  /\ trigCall.arg = "tavern"
  /\ trigCall.before = "m3"
  /\ Len(trigOut) = 1
  /\ currentlyPlaying = "m4"

\* C6: a manual trigger from the client for an existing mapping, received
\* while a mapping is playing, goes out with action crossfade and the
\* engine's slot becomes the requested mapping.
C6_ClientManualTriggerCrossfades ==
  (trigCall.op = "audio:manual-trigger" /\ trigCall.before # NoMapping
     /\ trigCall.arg \in MappingIds) =>
    /\ Len(trigOut) = 1
    /\ trigOut[1].mappingId = trigCall.arg
    /\ trigOut[1].action = "crossfade"
    /\ currentlyPlaying = trigCall.arg

\* C8: two auto-audio:play effect events with the same track id are at
\* least 30 seconds apart.
C8_EffectCooldown ==
  \A i, j \in 1..Len(autoLog) :
    (i < j /\ autoLog[i].type = "effect" /\ autoLog[j].type = "effect"
       /\ autoLog[i].track = autoLog[j].track) =>
      autoLog[j].at - autoLog[i].at >= effectCooldown

\* C9: for each health event, at most one health:confirm message changes
\* its confirmed flag or value, and its delta is applied to the player's HP
\* at most once.
C9_ResolvedOnce ==
  \A i \in 1..Len(healthEvents) :
    healthEvents[i].writes <= 1 /\ healthEvents[i].applied <= 1

\* C10: the player's currentHp stays within [0, maxHp] under every confirmed
\* damage or healing value, and damage 12 on 30/45 gives 18.
C10_HpStaysInRange ==
  /\ currentHp \in 0..PlayerMaxHp
  /\ (lastApply.type = "damage" /\ lastApply.value = 12 /\ lastApply.before = 30) =>
       lastApply.after = 18

PlayerUpdates(events) == SelectSeq(events, LAMBDA e : e.event = "player:updated")
HpFrame ==
  /\ currentHp' # currentHp => \E t \in confirmTasks : HealthConfirmApply(t)
  /\ \A characterName \in CharacterNames, type \in HealthTypes, value \in HealthValues :
       HealthExtracted(characterName, type, value) =>
         (currentHp' = currentHp /\ confirmTasks' = confirmTasks)
  /\ \A eventId \in 1..MaxHealthEvents, modifiedValue \in ModifiedValues :
       HealthConfirm(eventId, FALSE, modifiedValue) =>
         /\ currentHp' = currentHp
         /\ confirmTasks' = confirmTasks
         /\ Len(PlayerUpdates(healthOut')) = 0

\* C11: the player's HP changes only in the HP update of a health:confirm
\* that carried confirmed=true; persisting an extracted health event leaves
\* HP alone, and a health:confirm with confirmed=false leaves HP alone,
\* schedules no HP update and emits no player:updated.
C11_HpChangesOnlyOnConfirm == [][HpFrame]_vars

\* C11 witness: a health:confirm with confirmed=false has rewritten an
\* extracted event and the player still has the HP it started with.
C11_Witness ==
  /\ confirms >= 1
  /\ \E i \in 1..Len(healthEvents) :
       healthEvents[i].writes >= 1 /\ ~healthEvents[i].confirmed
  /\ confirmTasks = {}
  /\ currentHp = PlayerStartHp
  /\ lastApply = NoApply

\* C12: a session:start for an existing session whose campaign belongs to
\* another user than the caller ends in an error event and never reaches
\* the point where the status is updated and the SessionState, adapter and
\* save interval are created.
C12_ForeignSessionRejected ==
  (lcCall.op \in {"session:start:found", "session:start:done"}
     /\ lcCall.sessionId \in KnownSessions
     /\ campaignUserId(lcCall.sessionId) # userId) =>
    /\ lcCall.op = "session:start:found"
    /\ lcOut = <<"error">>
    /\ records[lcCall.sessionId].status = "scheduled"
    /\ currentSessionState = NoState
    /\ instances = <<>>

\* C13: when a session:end handler has run to its end, no save interval
\* armed by a session:start of the connection is running and no adapter
\* created by one is open.
C13_EndReleasesEverything ==
  lcCall.op = "session:end:done" =>
    \A n \in 1..Len(instances) : ~instances[n].timer /\ ~instances[n].adapter

\* C14: after close() has been called on a Transcription Adapter, no later
\* step (provider transcript, error or close event, processAudioChunk call or
\* its continuation) invokes the segment callback.
C14_NoSegmentAfterClose ==
  closed => adOut = <<>>

OpenConnections == {k \in 1..Len(conns) : conns[k].state = "open"}

\* C15: at every moment at most one provider connection of the adapter is
\* open with its transcript handler delivering to the segment callback.
C15_AtMostOneLiveConnection ==
  Cardinality(OpenConnections) <= 1

DisconnectStep ==
  \/ \E ok \in BOOLEAN : DisconnectRequested(ok)
  \/ \E t \in discTasks : DisconnectSaved(t) \/ DisconnectClosed(t)
DisconnectFrame ==
  /\ DisconnectStep =>
        \A id \in KnownSessions :
          /\ records'[id].status = "completed" => records[id].status = "completed"
          /\ records'[id].recap = records[id].recap
  /\ (DisconnectRequested(TRUE) /\ currentSessionState # NoState) =>
        /\ ~instances'[currentSessionState.n].timer
        /\ instances[currentSessionState.n].buffer > 0 =>
              records'[currentSessionState.sessionId].transcript =
                Buffer(instances, currentSessionState.n)
  /\ \A t \in discTasks :
        DisconnectClosed(t) => (~instances'[t.n].timer /\ ~instances'[t.n].adapter)
\* C16: a disconnect that arrives while a session is in progress clears that
\* session's save interval and saves its buffer, its handler has closed that
\* session's adapter by the time it finishes, and no step of the handler
\* marks a session completed or starts a recap.
C16_DisconnectFlushesWithoutCompleting == [][DisconnectFrame]_vars

\* The orchestrator's state for one session: active or paused while it is the
\* connection's current session, ended once session:end has run to its end
\* for it, idle otherwise.
StateOf(cur, recs, id) ==
  IF cur # NoState /\ cur.sessionId = id
    THEN IF cur.isActive THEN "active" ELSE "paused"
    ELSE IF recs[id].recap THEN "ended" ELSE "idle"
LifecycleEdges ==
  {<<"idle", "active">>, <<"active", "paused">>, <<"paused", "active">>,
   <<"active", "ended">>, <<"paused", "ended">>}
LifecycleStep ==
  \A id \in KnownSessions :
    /\ \/ StateOf(currentSessionState', records', id) = StateOf(currentSessionState, records, id)
       \/ <<StateOf(currentSessionState, records, id),
            StateOf(currentSessionState', records', id)>> \in LifecycleEdges
    /\ StateOf(currentSessionState, records, id) = "ended" =>
         records'[id].status = records[id].status
\* C17: the state of a session moves only idle -> active, active -> paused,
\* paused -> active and active or paused -> ended; an ended session stays
\* ended and its record keeps its status.
C17_LifecycleEdgesOnly == [][LifecycleStep]_vars

LabelsKept ==
  \A i \in 1..Len(segs), j \in 1..Len(segs') :
    segs[i].id = segs'[j].id => segs'[j].speakerLabel = segs[i].speakerLabel
LowConfidenceSilent ==
  \A scene \in Scenes \cup AutoScenes, confidence \in Confidences :
    (confidence < SceneConfidenceMin /\ sceneDetected(scene, confidence)) =>
      /\ trigOut' = <<>>
      /\ currentlyPlaying' = currentlyPlaying
      /\ autoLog' = autoLog
      /\ autoTasks' = autoTasks
      /\ currentScene' = currentScene
      /\ currentMusicTrackId' = currentMusicTrackId
C20_BatchEveryFourEmitted ==
  /\ sceneTasks = {} => (nextId - 1) - lastBatch.emitted < AttributionEvery
  /\ lastBatch.size = Min(AttributionWindow, lastBatch.len)

\* The buffer a merge pass started from: segs after the attribution updates
\* of the batch that resolved.
PassInput(t, ans, failed) ==
  ApplyAttribution(segs, t.start,
    [i \in 1..Len(t.win) |->
       AttributedName(Seen(segs, t.win[i].id, t.win[i].obj), ans[i], failed)])
LastN(ss, n) == SubSeq(ss, Max(1, Len(ss) - n + 1), Len(ss))
MergesSettledOnly ==
  \A t \in attrTasks : \A ans \in AttrAnswers(Len(t.win)), failed \in BOOLEAN :
    AttrResolve(t, ans, failed) =>
      LET before == PassInput(t, ans, failed)
          settled == Len(before) - UnsettledWindow
      IN /\ \A e \in Range(MergedPairs(out')) :
              /\ e[1] \in Ids(before) /\ e[2] \in Ids(before)
              /\ IndexOf(before, e[2]) = IndexOf(before, e[1]) + 1
              /\ IndexOf(before, e[2]) <= settled
              /\ effectiveSpeaker(before[IndexOf(before, e[1])])
                   = effectiveSpeaker(before[IndexOf(before, e[2])])
              /\ hasConfirmedSpeaker(effectiveSpeaker(before[IndexOf(before, e[1])]))
         /\ LastN(segs', UnsettledWindow) = LastN(before, UnsettledWindow)
\* C21: every merge of a merge pass joins two adjacent segments that both lie
\* before the last 4 segments of the buffer the pass started from and have
\* the same effective speaker name, not a 'Speaker ' label; the last 4
\* segments leave the pass as they entered it.
C21_MergesSettledOnly == [][MergesSettledOnly]_vars
\* C21 witness: a pass has just merged, and among the last 4 segments two
\* neighbours carry the same confirmed name and are still apart.
C21_Witness ==
  /\ Len(MergedPairs(out)) > 0
  /\ \E i \in 1..(Len(segs) - 1) :
       /\ i > Len(segs) - UnsettledWindow
       /\ effectiveSpeaker(segs[i]) = effectiveSpeaker(segs[i + 1])
       /\ hasConfirmedSpeaker(effectiveSpeaker(segs[i]))

SettledCoalesced ==
  \A t \in attrTasks : \A ans \in AttrAnswers(Len(t.win)), failed \in BOOLEAN :
    AttrResolve(t, ans, failed) =>
      \A i \in 1..(Len(segs') - UnsettledWindow - 1) :
        ~ /\ effectiveSpeaker(segs'[i]) = effectiveSpeaker(segs'[i + 1])
          /\ hasConfirmedSpeaker(effectiveSpeaker(segs'[i]))
\* C22: when a merge pass has completed, no two neighbours among the segments
\* before the last 4 carry the same confirmed effective speaker name.
C22_SettledPrefixCoalesced == [][SettledCoalesced]_vars

\* In SpecWindow every director operation is an accepted segment, so the
\* segment being processed is number autoOps + 1.
EveryThirdSegment ==
  \A text \in AutoTexts, draw \in RandomDraws :
    processSegment(text, draw) =>
      LET started == autoTasks' \ autoTasks
          n == autoOps + 1
      IN /\ (\A t \in started : t.kind # "effect") =>
              ((\E t \in started : t.kind = "analysis") <=> (n % AnalysisEvery = 0))
         /\ recentSegments' <= maxRecentSegments
\* C23: the n-th segment an enabled director accepts, when the fast path does
\* not consume it, starts a suggestion-model call exactly when n is a
\* multiple of 3, and the rolling window never exceeds 10 texts.
C23_EveryThirdSegmentAnalysed == [][EveryThirdSegment]_vars

SceneChangesSpaced ==
  \A s \in Sessions :
    (/\ directorScene'[s] # directorScene[s]
     /\ sceneChangedAt[s] # Never
     /\ sceneChangedAt'[s] # Never) =>
      now - sceneChangedAt[s] >= minSceneChangeInterval
\* C24: within one session, a change of the director's current scene comes
\* at least 30 seconds after the previous one, whether the suggestion model
\* or the orchestrator's scene detection proposed it.
C24_SceneChangesThirtySecondsApart == [][SceneChangesSpaced]_vars

\* C26: whether the rate limiter accepts a session's scene-change or effect
\* suggestion is what that session's own earlier suggestions and resets
\* determine, whatever the other session did.
C26_LimiterIsPerSession ==
  /\ limCall.scene = limCall.ownScene
  /\ limCall.effect = limCall.ownEffect

\* C25: once the client has reported that a track failed to play, no later
\* play event of the session carries that track id.
FailedTrackNotReplayed ==
  Len(autoLog') > Len(autoLog) => autoLog'[Len(autoLog')].track \notin failedTracks

C25_FailedTrackNeverReplayed == [][FailedTrackNotReplayed]_vars

\* C27: no words are lost from the transcript.  The words of every emitted
\* segment are still in the text of some segment of the buffer, its own or
\* the one that absorbed it.
C27_NoWordsLost ==
  \A id \in 1..(nextId - 1) : \E i \in 1..Len(segs) : id \in Origins(segs[i].text)

\* What C28 compares: ids in order, text, effective speaker name.
ViewOf(ss) ==
  [i \in 1..Len(ss) |->
     [id |-> ss[i].id, text |-> ss[i].text, speaker |-> effectiveSpeaker(ss[i])]]

NoTaskInFlight ==
  corrTasks = {} /\ attrTasks = {} /\ sceneTasks = {} /\ manualTasks = {}

\* C28: whenever no background task is in flight, the client that applied
\* every event in the order emitted holds the same sequence of segments (ids
\* in order, text, effective speaker name) as the server's buffer.
C28_ClientMatchesBuffer == NoTaskInFlight => ViewOf(transcript) = ViewOf(segs)

EditedNameKept ==
  \A t \in attrTasks : \A ans \in AttrAnswers(Len(t.win)), failed \in BOOLEAN :
    AttrResolve(t, ans, failed) =>
      \A i \in 1..Len(segs) :
        (segs[i].isEdited /\ segs[i].id \in Ids(segs')) =>
          segs'[IndexOf(segs', segs[i].id)].speakerName = segs[i].speakerName

\* C29: a segment whose speaker the user has set (isEdited) keeps its
\* speakerName across every automatic attribution batch that resolves later,
\* whether the batch was started before or after the manual correction.
C29_ManualSpeakerKept == [][EditedNameKept]_vars

IsPrefix(a, b) == Len(a) <= Len(b) /\ SubSeq(b, 1, Len(a)) = a

\* The session a disconnect flushed is the current session of the
\* connection made afterwards: a session:start for it has completed there.
Resumed(id) ==
  /\ Len(flushed[id]) > 0
  /\ connected
  /\ currentSessionState # NoState /\ currentSessionState.sessionId = id

\* C30: after a session flushed on disconnect has been started again, the
\* persisted transcript still begins with every segment the flush persisted,
\* in their order, whatever periodic or final save has run since.
C30_ResumeKeepsPersisted ==
  \A id \in KnownSessions : Resumed(id) => IsPrefix(flushed[id], records[id].transcript)

====
